---- MODULE Spec2Model ----
(***************************************************************************)
(* Orby memory and context-retrieval engine: the Memory System facade      *)
(* (EnhancedMemorySystem), the Storage Engine (MemoryDatabase), the        *)
(* Context Manager (ContextManager) and the Embedding Provider             *)
(* (EmbeddingManager).                                                     *)
(*                                                                         *)
(* Conventions of the model                                                *)
(*  - a Python str is a tuple of one-character strings;                    *)
(*  - importance is kept in tenths (9 is 0.9, 10 is the default 1.0);      *)
(*  - datetime.now() reads a microsecond counter that advances on every    *)
(*    read; an isoformat() column keeps the counter value, since the       *)
(*    column is only compared, ordered and printed;                        *)
(*  - a SQLite table is the set of its rows, an AUTOINCREMENT key is the   *)
(*    last value handed out;                                               *)
(*  - md5 is taken to be collision free.                                   *)
(***************************************************************************)
EXTENDS Integers, Sequences, FiniteSets, Bags, TLC

(***************************************************************************)
(* Bounds of the model.                                                    *)
(***************************************************************************)
MaxEntrySeq == 6
MaxSessions == 2
MaxSearchEntries == 3
MaxFaultEntries == 3
MaxFaultAt == 2
MaxFaultSessions == 2
MaxFaultClock == 8
MaxCapAdds == 102
MaxCapFree == 2
MaxChunkText == 6
MaxChunkSize == 3
MaxCmChunks == 4
MaxCmClock == 8
MaxDbEntries == 3
MaxBootEntries == 2
MaxSessionEntries == 3
MaxSessionClock == 7
MaxSimChunks == 3
MaxSimClock == 5
MaxFindEntries == 3
MaxRenderChunks == 3
MaxRenderClock == 5
MaxClearEntries == 2
MaxClearChunks == 3
MaxClearClock == 7
MaxEmbedChunks == 2
MaxEmbedClock == 5
MaxNameEntries == 3
MaxNameSessions == 3
MaxTxEntries == 2
MaxTxClock == 4
MaxTxFail == 4
MaxThreadEntries == 2
MaxConnections == 4
MaxTurnAdds == 102
MaxSubEntries == 2
MaxVectorLen == 2
MaxLoadEntries == 4
MaxLoadClock == 12
MaxShareChunks == 3
MaxShareClock == 6
MaxSnapEntries == 4
MaxSnapSessions == 3
MaxSnapClock == 12
MaxToggleEntries == 3
MaxStatsEntries == 3
MaxOrphanEntries == 3
MaxPickEntries == 3
MaxRankEntries == 6
MaxRankClock == 20
MaxRaceEntries == 3
MaxLazyCalls == 2

(***************************************************************************)
(* Program constants.                                                      *)
(***************************************************************************)
session_memory_limit == 100
SnapshotLimit == 10000
DefaultChunkSize == 500
DefaultOverlap == 50
SubChunkThreshold == 1000
SubChunkSize == 500
DefaultLimit == 50
DefaultTopK == 10
DefaultSearchLimit == 20

NULL == "NULL"

(***************************************************************************)
(* Strings.                                                                *)
(***************************************************************************)
LowerChar(c) ==
    CASE c = "A" -> "a"
      [] c = "B" -> "b"
      [] c = "K" -> "k"
      [] c = "T" -> "t"
      [] c = "X" -> "x"
      [] OTHER -> c

Lower(s) == [i \in 1..Len(s) |-> LowerChar(s[i])]

\* Python slice s[a:b] with 0 <= a (0-based, end exclusive, clipped to len(s)).
Slice(s, a, b) ==
    LET e == IF b < Len(s) THEN b ELSE Len(s)
    IN  IF a >= e THEN <<>> ELSE [i \in 1..(e - a) |-> s[a + i]]

\* Python `q in s` on strings.
Contains(s, q) ==
    \E i \in 0..(Len(s) - Len(q)) : \A j \in 1..Len(q) : s[i + j] = q[j]

StartsWith(s, p) == Len(p) <= Len(s) /\ \A j \in 1..Len(p) : s[j] = p[j]

\* SQLite `s LIKE p`: % is any run of characters, _ any one character, ASCII
\* letters compare case-insensitively.  i and j are the next positions of s, p.
RECURSIVE LikeFrom(_, _, _, _)
LikeFrom(s, p, i, j) ==
    IF j > Len(p) THEN i > Len(s)
    ELSE IF p[j] = "%"
         THEN \E k \in i..(Len(s) + 1) : LikeFrom(s, p, k, j + 1)
         ELSE /\ i <= Len(s)
              /\ (p[j] = "_" \/ LowerChar(p[j]) = LowerChar(s[i]))
              /\ LikeFrom(s, p, i + 1, j + 1)

Like(s, p) == LikeFrom(s, p, 1, 1)

Digit(d) == CASE d = 0 -> "0" [] d = 1 -> "1" [] d = 2 -> "2" [] d = 3 -> "3"
              [] d = 4 -> "4" [] d = 5 -> "5" [] d = 6 -> "6" [] d = 7 -> "7"
              [] d = 8 -> "8" [] OTHER -> "9"

\* strftime('%Y%m%d_%H%M%S_%f') of the instant t microseconds after the start
\* of the process; the process starts on a whole second and runs for less
\* than one second, so only the %f field varies.
strftime(t) ==
    <<"2","0","2","5","0","1","0","1","_","1","2","0","0","0","0","_">> \o
    <<Digit((t \div 100000) % 10), Digit((t \div 10000) % 10),
      Digit((t \div 1000) % 10), Digit((t \div 100) % 10),
      Digit((t \div 10) % 10), Digit(t % 10)>>

\* datetime.isoformat() of the instant t > 0 (the text that is printed).
isoformat(t) ==
    <<"2","0","2","5","-","0","1","-","0","1","T","1","2",":","0","0",":","0","0",".">> \o
    <<Digit((t \div 100000) % 10), Digit((t \div 10000) % 10),
      Digit((t \div 1000) % 10), Digit((t \div 100) % 10),
      Digit((t \div 10) % 10), Digit(t % 10)>>

\* json.dumps of a dict of str -> str, and of a list of str.
RECURSIVE JoinWith(_, _)
JoinWith(parts, sep) ==
    IF parts = <<>> THEN <<>>
    ELSE IF Len(parts) = 1 THEN parts[1]
    ELSE parts[1] \o sep \o JoinWith(Tail(parts), sep)

Quoted(s) == <<"\"">> \o s \o <<"\"">>

json_dumps_dict(m) ==
    <<"{">> \o
    JoinWith([i \in 1..Len(m) |-> Quoted(m[i][1]) \o <<":", " ">> \o Quoted(m[i][2])],
             <<",", " ">>) \o
    <<"}">>

\* str.upper() of a content type.
Upper(ct) == CASE ct = "text" -> "TEXT" [] ct = "code" -> "CODE" [] OTHER -> ct


json_dumps_list(l) ==
    <<"[">> \o JoinWith([i \in 1..Len(l) |-> Quoted(l[i])], <<",", " ">>) \o <<"]">>

\* str() of a list of str and of a dict of str -> str (Python literal repr).
SQuoted(s) == <<"'">> \o s \o <<"'">>

str_list(l) ==
    <<"[">> \o JoinWith([i \in 1..Len(l) |-> SQuoted(l[i])], <<",", " ">>) \o <<"]">>

str_dict(m) ==
    <<"{">> \o
    JoinWith([i \in 1..Len(m) |-> SQuoted(m[i][1]) \o <<":", " ">> \o SQuoted(m[i][2])],
             <<",", " ">>) \o
    <<"}">>

(***************************************************************************)
(* Values the callers pass.  A tags value is a list of str, a metadata     *)
(* value a dict of str -> str (a list of key/value pairs).                 *)
(***************************************************************************)
NoTags == <<>>
TagT == << <<"t">> >>
NoMeta == <<>>
MetaKA == << << <<"k">>, <<"a">> >> >>

TagValues == {NoTags, TagT}
MetaValues == {NoMeta, MetaKA}

\* json.loads / eval of a stored tags or metadata text: the value that was dumped.
json_loads_list(text) == CHOOSE l \in TagValues : json_dumps_list(l) = text
json_loads_dict(text) == CHOOSE m \in MetaValues : json_dumps_dict(m) = text
eval_list(text) == CHOOSE l \in TagValues : str_list(l) = text
eval_dict(text) == CHOOSE m \in MetaValues : str_dict(m) = text

(***************************************************************************)
(* Sorting.  list.sort(key, reverse=True) and ORDER BY ... DESC keep the   *)
(* order of the input among elements that compare equal.  Gt(a, b) says    *)
(* that a comes strictly before b.                                         *)
(***************************************************************************)
StableSortDesc(seq, Gt(_, _)) ==
    LET n == Len(seq)
        Rank(i) == Cardinality({j \in 1..n : Gt(seq[j], seq[i])}) +
                   Cardinality({j \in 1..(i - 1) :
                                  ~Gt(seq[i], seq[j]) /\ ~Gt(seq[j], seq[i])}) + 1
    IN  [k \in 1..n |-> seq[CHOOSE i \in 1..n : Rank(i) = k]]

\* The rows of a table in rowid order.
RECURSIVE RowsById(_)
RowsById(rows) ==
    IF rows = {} THEN <<>>
    ELSE LET r == CHOOSE x \in rows : \A y \in rows : x.id <= y.id
         IN  <<r>> \o RowsById(rows \ {r})

\* seq[:n] of Python.
Take(seq, n) == IF n >= Len(seq) THEN seq ELSE SubSeq(seq, 1, n)

\* seq[n:] of Python.
Drop(seq, n) == IF n >= Len(seq) THEN <<>> ELSE SubSeq(seq, n + 1, Len(seq))

SelectRows(seq, Keep(_)) == SelectSeq(seq, Keep)

(***************************************************************************)
(* ContextManager.chunk_text                                               *)
(***************************************************************************)
\* A variant that moves one character too far.
next_start_skipping(end, overlap) == end - overlap + 1

\* A variant that starts the next window where the last one ended.
next_start_at_end(end, overlap) == end

\* "start = end - overlap"
next_start(end, overlap) == end - overlap

RECURSIVE chunk_loop(_, _, _, _)
chunk_loop(text, chunk_size, overlap, start) ==
    IF ~(start < Len(text)) THEN <<>>
    ELSE LET end == start + chunk_size
             chunk == Slice(text, start, end)
         IN  IF end >= Len(text) THEN <<chunk>>
             ELSE <<chunk>> \o chunk_loop(text, chunk_size, overlap, next_start(end, overlap))

chunk_text(text, chunk_size, overlap) ==
    IF Len(text) <= chunk_size THEN <<text>>
    ELSE chunk_loop(text, chunk_size, overlap, 0)

\* ContextManager._hash_content and the facade's content hash: md5 hexdigest.
hash_content(content) == <<"md5", content>>

(***************************************************************************)
(* The Storage Engine (MemoryDatabase).  A database value db is a record   *)
(* of its tables: sessions, memory_entries and memory_chunks, with the     *)
(* AUTOINCREMENT counters entry_seq and chunk_seq.  Each method is an      *)
(* operator from the database before the call to the database after it     *)
(* (field db) and the value returned (field ret); now is the instant the   *)
(* method reads from datetime.now().                                       *)
(***************************************************************************)
EmptyDb ==
    [sessions |-> {}, memory_entries |-> {}, memory_chunks |-> {},
     entry_seq |-> 0, chunk_seq |-> 0]

\* A variant: every session id is taken to have a row.
session_exists_always(db, session_id) == TRUE

\* SELECT 1 FROM sessions WHERE session_id = ?
session_exists(db, session_id) ==
    \E s \in db.sessions : s.session_id = session_id

\* A variant: INSERT OR REPLACE INTO sessions.
create_session_replacing(db, session_id, project_path, metadata, now) ==
    [db |-> [db EXCEPT !.sessions = {s \in @ : s.session_id # session_id} \cup
                {[session_id |-> session_id, project_path |-> project_path,
                  created_at |-> now, updated_at |-> now,
                  metadata |-> json_dumps_dict(metadata)]}],
     ret |-> TRUE]

\* A variant: a sessions table without the PRIMARY KEY.
create_session_unchecked(db, session_id, project_path, metadata, now) ==
    [db |-> [db EXCEPT !.sessions = @ \cup
                {[session_id |-> session_id, project_path |-> project_path,
                  created_at |-> now, updated_at |-> now,
                  metadata |-> json_dumps_dict(metadata)]}],
     ret |-> TRUE]

\* INSERT INTO sessions: the PRIMARY KEY refuses a second row (IntegrityError).
create_session(db, session_id, project_path, metadata, now) ==
    IF session_exists(db, session_id)
    THEN [db |-> db, ret |-> FALSE]
    ELSE [db |-> [db EXCEPT !.sessions = @ \cup
                    {[session_id |-> session_id, project_path |-> project_path,
                      created_at |-> now, updated_at |-> now,
                      metadata |-> json_dumps_dict(metadata)]}],
          ret |-> TRUE]

\* A variant: the sub-chunks numbered from 1.
chunk_and_store_content_from_one(db, entry_id, content, chunk_size, now) ==
    LET n == (Len(content) + chunk_size - 1) \div chunk_size
        rows == {[id |-> db.chunk_seq + k + 1, entry_id |-> entry_id,
                  chunk_index |-> k + 1,
                  content |-> Slice(content, k * chunk_size, k * chunk_size + chunk_size),
                  created_at |-> now] : k \in 0..(n - 1)}
    IN  [db EXCEPT !.memory_chunks = @ \cup rows, !.chunk_seq = @ + n]

\* range(0, len(content), chunk_size) as the list of sub-chunk rows.
chunk_and_store_content(db, entry_id, content, chunk_size, now) ==
    LET n == (Len(content) + chunk_size - 1) \div chunk_size
        rows == {[id |-> db.chunk_seq + k + 1, entry_id |-> entry_id,
                  chunk_index |-> (k * chunk_size) \div chunk_size,
                  content |-> Slice(content, k * chunk_size, k * chunk_size + chunk_size),
                  created_at |-> now] : k \in 0..(n - 1)}
    IN  [db EXCEPT !.memory_chunks = @ \cup rows, !.chunk_seq = @ + n]

add_memory_entry(db, session_id, content, content_type, importance, tags, metadata, now) ==
    LET db1 == IF ~session_exists(db, session_id)
               THEN create_session(db, session_id, <<"c", "w", "d">>, NoMeta, now).db
               ELSE db
        entry_id == db1.entry_seq + 1
        row == [id |-> entry_id, session_id |-> session_id, content |-> content,
                content_type |-> content_type, importance |-> importance,
                created_at |-> now, updated_at |-> now,
                tags |-> json_dumps_list(tags), metadata |-> json_dumps_dict(metadata)]
        db2 == [db1 EXCEPT !.memory_entries = @ \cup {row}, !.entry_seq = entry_id]
        db3 == IF Len(content) > SubChunkThreshold
               THEN chunk_and_store_content(db2, entry_id, content, SubChunkSize, now)
               ELSE db2
    IN  [db |-> db3, ret |-> entry_id]

\* A variant: an except branch that does not roll back.
rollback_nothing(committed, working) == working

\* conn.rollback(): the rows written since the last commit are undone, and
\* with them the AUTOINCREMENT counters.
rollback(committed, working) == committed

\* executemany over the sub-chunk rows of a connection whose fail_at-th
\* INSERT raises (0, or an index beyond the rows: none does): the rows before
\* it are written, uncommitted.
store_chunks(db, entry_id, content, chunk_size, now, fail_at) ==
    LET full == chunk_and_store_content(db, entry_id, content, chunk_size, now)
        n == full.chunk_seq - db.chunk_seq
    IN  IF fail_at \in 1..n
        THEN [db |-> [db EXCEPT !.memory_chunks =
                                   {r \in full.memory_chunks : r.id < db.chunk_seq + fail_at},
                                !.chunk_seq = @ + fail_at - 1],
              raised |-> TRUE]
        ELSE [db |-> full, raised |-> FALSE]

\* add_memory_entry on a connection that fails: fail = 1 makes the INSERT of
\* the entry raise, fail = k + 1 the INSERT of the k-th sub-chunk, 0 nothing.
\* The session row is committed by create_session before the transaction of
\* the entry begins; both with-blocks roll back and re-raise.
add_memory_entry_failing(db, session_id, content, content_type, importance, tags, metadata, now, fail) ==
    LET db1 == IF ~session_exists(db, session_id)
               THEN create_session(db, session_id, <<"c", "w", "d">>, NoMeta, now).db
               ELSE db
        entry_id == db1.entry_seq + 1
        row == [id |-> entry_id, session_id |-> session_id, content |-> content,
                content_type |-> content_type, importance |-> importance,
                created_at |-> now, updated_at |-> now,
                tags |-> json_dumps_list(tags), metadata |-> json_dumps_dict(metadata)]
        db2 == [db1 EXCEPT !.memory_entries = @ \cup {row}, !.entry_seq = entry_id]
        stored == store_chunks(db2, entry_id, content, SubChunkSize, now, fail - 1)
    IN  IF fail = 1
        THEN [db |-> rollback(db1, db1), ret |-> NULL, raised |-> TRUE]
        ELSE IF Len(content) > SubChunkThreshold
        THEN IF stored.raised
             THEN [db |-> rollback(db1, stored.db), ret |-> NULL, raised |-> TRUE]
             ELSE [db |-> stored.db, ret |-> entry_id, raised |-> FALSE]
        ELSE [db |-> db2, ret |-> entry_id, raised |-> FALSE]

row_to_dict(row) ==
    [row EXCEPT !.tags = json_loads_list(@), !.metadata = json_loads_dict(@)]

\* A variant: ORDER BY importance DESC, created_at ASC.
RankedBefore_oldest_first(a, b) ==
    \/ a.importance > b.importance
    \/ a.importance = b.importance /\ a.created_at < b.created_at

\* ORDER BY importance DESC, created_at DESC
RankedBefore(a, b) ==
    \/ a.importance > b.importance
    \/ a.importance = b.importance /\ a.created_at > b.created_at

get_memory_entries(db, session_id, limit, offset) ==
    LET rows == RowsById({r \in db.memory_entries : r.session_id = session_id})
        ordered == StableSortDesc(rows, RankedBefore)
        page == Take(Drop(ordered, offset), limit)
    IN  [i \in 1..Len(page) |-> row_to_dict(page[i])]

search_memory(db, session_id, query, content_type, limit) ==
    LET query_lower == Lower(query)
        pattern == <<"%">> \o query_lower \o <<"%">>
        Matches(r) ==
            /\ r.session_id = session_id
            /\ (Like(Lower(r.content), pattern) \/ Like(Lower(r.metadata), pattern))
            /\ (content_type # NULL => r.content_type = content_type)
        rows == RowsById({r \in db.memory_entries : Matches(r)})
        page == Take(StableSortDesc(rows, RankedBefore), limit)
    IN  [i \in 1..Len(page) |-> row_to_dict(page[i])]

\* One line of get_session_context: "[TYPE - created_at{tag_info}] content".
\* A list argument that is None or empty is the empty tuple (the code tests
\* its truth value only); an absent content_type is NULL.
TagInfo(tags) ==
    IF tags = <<>> THEN <<>>
    ELSE <<" [Tags: ">> \o JoinWith(tags, <<", ">>) \o <<"]">>

entry_line(entry) ==
    <<"[", Upper(entry.content_type), " - ">> \o isoformat(entry.created_at) \o
    TagInfo(entry.tags) \o
    <<"] ">> \o entry.content

get_session_context(db, session_id, max_entries, include_types) ==
    LET fetched == get_memory_entries(db, session_id, max_entries, 0)
        Included(e) == \E i \in 1..Len(include_types) : include_types[i] = e.content_type
        entries == IF include_types # <<>>
                   THEN SelectSeq(fetched, Included) ELSE fetched
        context_parts == [i \in 1..Len(entries) |-> entry_line(entries[i])]
    IN  JoinWith(Take(context_parts, max_entries), <<"\n">>)

delete_memory_entry(db, entry_id) ==
    [db |-> [db EXCEPT !.memory_entries = {r \in @ : r.id # entry_id}],
     ret |-> \E r \in db.memory_entries : r.id = entry_id]

\* A variant: a DELETE without the WHERE clause.
delete_session_memory_everywhere(db, session_id) ==
    [db |-> [db EXCEPT !.memory_entries = {}],
     ret |-> db.memory_entries # {}]

delete_session_memory(db, session_id) ==
    [db |-> [db EXCEPT !.memory_entries = {r \in @ : r.session_id # session_id}],
     ret |-> \E r \in db.memory_entries : r.session_id = session_id]

(***************************************************************************)
(* The Embedding Provider (EmbeddingManager).  Its state em records        *)
(* _embeddings_available and whether _model is loaded.  The sentence       *)
(* transformer is outside the repository: load_ok and encode_ok say        *)
(* whether constructing the model and encoding succeed when attempted.     *)
(* A vector that is None is the empty tuple.                               *)
(***************************************************************************)
CountChar(s, c) == Cardinality({i \in 1..Len(s) : LowerChar(s[i]) = c})

\* SentenceTransformer.encode: a fixed function of the text (letter counts).
encode(text) == <<CountChar(text, "a"), CountChar(text, "b")>>

\* The model property: lazy load, disabled for good when the load fails.
model(em, load_ok) ==
    IF ~em.model_loaded /\ em.embeddings_available
    THEN IF load_ok THEN [em EXCEPT !.model_loaded = TRUE]
         ELSE [em EXCEPT !.embeddings_available = FALSE, !.model_loaded = FALSE]
    ELSE em

\* A variant: the model is asked for whatever _embeddings_available says.
embed_text_retrying(em, text, load_ok, encode_ok) ==
    LET em1 == IF em.model_loaded THEN em
               ELSE [embeddings_available |-> load_ok, model_loaded |-> load_ok]
    IN  IF em1.model_loaded /\ encode_ok
        THEN [em |-> em1, ret |-> encode(text)]
        ELSE [em |-> em1, ret |-> <<>>]

embed_text(em, text, load_ok, encode_ok) ==
    IF em.embeddings_available
    THEN LET em1 == model(em, load_ok)
         IN  IF em1.model_loaded /\ encode_ok
             THEN [em |-> em1, ret |-> encode(text)]
             ELSE [em |-> em1, ret |-> <<>>]
    ELSE [em |-> em, ret |-> <<>>]

\* A similarity value num / sqrt(den2), kept exact.
SimZero == [num |-> 0, den2 |-> 1]

Dot(a, b) ==
    LET RECURSIVE S(_)
        S(i) == IF i = 0 THEN 0 ELSE a[i] * b[i] + S(i - 1)
    IN  S(Len(a))

simple_similarity(text1, text2) ==
    IF Len(text1) # Len(text2) THEN SimZero
    ELSE IF Dot(text1, text1) = 0 \/ Dot(text2, text2) = 0 THEN SimZero
    ELSE [num |-> Dot(text1, text2), den2 |-> Dot(text1, text1) * Dot(text2, text2)]

(***************************************************************************)
(* _simple_similarity in float arithmetic.  A vector is a list of digits   *)
(* all multiplied by one magnitude: 1e-200 (scale -1), 1 (scale 0) or      *)
(* 1e200 (scale 1); numbers tells whether its components are numbers at    *)
(* all.  A product of two components underflows to 0.0 when the scales add *)
(* to -2 and overflows to an infinity when they add to 2.  A float is      *)
(* finite (n its digits), an infinity, or nan; of a magnitude n is the     *)
(* digits of its square.  The result is the exact fraction num / sqrt(den2)*)
(* of the finite case, and nan is the fraction 0 / 0.                      *)
(***************************************************************************)
SimNaN == [num |-> 0, den2 |-> 0]

Fin(n) == [class |-> "fin", n |-> n]
Infinity == [class |-> "inf", n |-> 0]
NaN == [class |-> "nan", n |-> 0]

\* sum(a * b for a, b in zip(text1, text2))
dot_product(text1, text2) ==
    LET terms == {text1.digits[i] * text2.digits[i] : i \in 1..Len(text1.digits)}
    IN  IF text1.scale + text2.scale <= -2 THEN Fin(0)
        ELSE IF text1.scale + text2.scale >= 2
        THEN IF (\E x \in terms : x > 0) /\ (\E x \in terms : x < 0) THEN NaN
             ELSE IF \E x \in terms : x # 0 THEN Infinity
             ELSE Fin(0)
        ELSE Fin(Dot(text1.digits, text2.digits))

\* sum(a * a for a in text) ** 0.5, kept as its square
magnitude(text) == dot_product(text, text)

\* dot_product / (magnitude1 * magnitude2), neither magnitude being zero
quotient(dot, magnitude1, magnitude2) ==
    IF magnitude1.class = "fin" /\ magnitude2.class = "fin"
    THEN [num |-> dot.n, den2 |-> magnitude1.n * magnitude2.n]
    ELSE IF dot.class = "fin" THEN SimZero
    ELSE SimNaN

\* A variant: an except clause that lets the exception through.
except_reraises(body) == body

\* "except: return 0.0"
except_returns_zero(body) ==
    IF body.raised THEN [ret |-> SimZero, raised |-> FALSE] ELSE body

simple_similarity_floats(text1, text2) ==
    IF Len(text1.digits) # Len(text2.digits) THEN [ret |-> SimZero, raised |-> FALSE]
    ELSE except_returns_zero(
        IF text1.digits # <<>> /\ (~text1.numbers \/ ~text2.numbers)
        THEN [ret |-> NULL, raised |-> TRUE]                  \* TypeError
        ELSE LET magnitude1 == magnitude(text1)
                 magnitude2 == magnitude(text2)
             IN  IF magnitude1 = Fin(0) \/ magnitude2 = Fin(0)
                 THEN [ret |-> SimZero, raised |-> FALSE]
                 ELSE [ret |-> quotient(dot_product(text1, text2), magnitude1,
                                        magnitude2),
                       raised |-> FALSE])

\* sklearn's cosine_similarity: raises on vectors of different lengths (the
\* caller then falls back), gives 0 for a zero vector.
compute_similarity(em, emb1, emb2) ==
    IF em.embeddings_available /\ Len(emb1) = Len(emb2)
    THEN IF Dot(emb1, emb1) = 0 \/ Dot(emb2, emb2) = 0 THEN SimZero
         ELSE [num |-> Dot(emb1, emb2), den2 |-> Dot(emb1, emb1) * Dot(emb2, emb2)]
    ELSE simple_similarity(emb1, emb2)

\* s >= n / d for a threshold n / d >= 0.
SimAtLeast(s, n, d) == s.num >= 0 /\ s.num * s.num * d * d >= n * n * s.den2

\* a > b
SimGreater(a, b) ==
    IF a.num >= 0 /\ b.num < 0 THEN TRUE
    ELSE IF a.num < 0 /\ b.num >= 0 THEN FALSE
    ELSE IF a.num >= 0 THEN a.num * a.num * b.den2 > b.num * b.num * a.den2
    ELSE a.num * a.num * b.den2 < b.num * b.num * a.den2

(***************************************************************************)
(* The Context Manager (ContextManager).  cm is its database: the table    *)
(* context_chunks and its AUTOINCREMENT counter.                           *)
(***************************************************************************)
EmptyCm == [context_chunks |-> {}, chunk_seq |-> 0]

\* A variant: a table without the UNIQUE constraint.
hash_exists_never(cm, h) == FALSE

\* embedding_hash TEXT UNIQUE: the INSERT of a hash the table holds raises
\* sqlite3.IntegrityError, whatever the session of the row that holds it.
hash_exists(cm, h) == \E r \in cm.context_chunks : r.embedding_hash = h

\* add_content from chunk k on.  st carries cm, em, the ids collected and the
\* clock; fail is the index of the chunk whose INSERT raises a storage error
\* (0: none), which ends the call with the exception.
RECURSIVE add_chunks(_, _, _, _, _, _, _, _, _, _, _)
add_chunks(st, chunks, k, session_id, content_type, importance, tags, metadata, load_ok, encode_ok, fail) ==
    IF k > Len(chunks) THEN st
    ELSE LET e == embed_text(st.em, chunks[k], load_ok, encode_ok)
             content_hash == hash_content(chunks[k])
             row == [id |-> st.cm.chunk_seq + 1, session_id |-> session_id,
                     content |-> chunks[k], content_type |-> content_type,
                     importance |-> importance,
                     created_at |-> st.clock, updated_at |-> st.clock,
                     tags |-> str_list(tags), metadata |-> str_dict(metadata),
                     embedding |-> e.ret, embedding_hash |-> content_hash]
         IN  IF fail = k
             THEN [st EXCEPT !.em = e.em, !.raised = TRUE]
             ELSE IF hash_exists(st.cm, content_hash)
             THEN add_chunks([st EXCEPT !.em = e.em, !.clock = @ + 1],
                             chunks, k + 1, session_id, content_type, importance,
                             tags, metadata, load_ok, encode_ok, fail)
             ELSE add_chunks([st EXCEPT !.em = e.em, !.clock = @ + 1,
                                        !.cm.context_chunks = @ \cup {row},
                                        !.cm.chunk_seq = @ + 1,
                                        !.ret = Append(@, row.id)],
                             chunks, k + 1, session_id, content_type, importance,
                             tags, metadata, load_ok, encode_ok, fail)

add_content(cm, em, session_id, content, content_type, importance, tags, metadata, now, load_ok, encode_ok, fail) ==
    add_chunks([cm |-> cm, em |-> em, ret |-> <<>>, clock |-> now, raised |-> FALSE],
               chunk_text(content, DefaultChunkSize, DefaultOverlap), 1,
               session_id, content_type, importance, tags, metadata,
               load_ok, encode_ok, fail)

to_chunk(row) ==
    [id |-> row.id, content |-> row.content, content_type |-> row.content_type,
     importance |-> row.importance, created_at |-> row.created_at,
     tags |-> eval_list(row.tags), metadata |-> eval_dict(row.metadata),
     session_id |-> row.session_id]

ImportanceBefore(a, b) == a.importance > b.importance

\* ORDER BY importance DESC alone leaves the order of equal importances to
\* the query plan: rowid order (a sort) or reverse rowid order (the
\* importance index read backwards).  tie names the one taken.
Reverse(seq) == [i \in 1..Len(seq) |-> seq[Len(seq) + 1 - i]]

\* A variant: the query without its ORDER BY clause.
keyword_search_by_rowid(cm, session_id, query, top_k, tie) ==
    LET pattern == <<"%">> \o Lower(query) \o <<"%">>
        rows == RowsById({r \in cm.context_chunks :
                            r.session_id = session_id /\ Like(Lower(r.content), pattern)})
        page == Take(rows, top_k)
    IN  [i \in 1..Len(page) |-> to_chunk(page[i])]

keyword_search(cm, session_id, query, top_k, tie) ==
    LET pattern == <<"%">> \o Lower(query) \o <<"%">>
        rows == RowsById({r \in cm.context_chunks :
                            r.session_id = session_id /\ Like(Lower(r.content), pattern)})
        scan == IF tie = "rowid" THEN rows ELSE Reverse(rows)
        page == Take(StableSortDesc(scan, ImportanceBefore), top_k)
    IN  [i \in 1..Len(page) |-> to_chunk(page[i])]

\* A variant: the results are cut to top_k in the order they were scanned.
top_results_unsorted(results, top_k) == Take(results, top_k)

\* results.sort(key=lambda x: x[1], reverse=True); results[:top_k]
top_results(results, top_k) ==
    LET MoreSimilar(x, y) == SimGreater(x.similarity, y.similarity)
    IN  Take(StableSortDesc(results, MoreSimilar), top_k)

search_by_similarity(cm, em, session_id, query, top_k, min_num, min_den, load_ok, encode_ok, tie) ==
    LET q == embed_text(em, query, load_ok, encode_ok)
        query_embedding == q.ret
        rows == RowsById({r \in cm.context_chunks :
                            r.session_id = session_id /\ r.embedding # <<>>})
        scored == [i \in 1..Len(rows) |->
                     [chunk |-> to_chunk(rows[i]),
                      similarity |-> compute_similarity(q.em, query_embedding,
                                                        rows[i].embedding)]]
        Enough(x) == SimAtLeast(x.similarity, min_num, min_den)
        results == top_results(SelectSeq(scored, Enough), top_k)
    IN  IF query_embedding = <<>>
        THEN [em |-> q.em, ret |-> keyword_search(cm, session_id, query, top_k, tie)]
        ELSE [em |-> q.em, ret |-> [i \in 1..Len(results) |-> results[i].chunk]]

\* One part of get_context_for_session: "[TYPE - created_at{tag_info}]\ncontent".
chunk_part(row) ==
    <<"[", Upper(row.content_type), " - ">> \o isoformat(row.created_at) \o
    TagInfo(eval_list(row.tags)) \o <<"]", "\n">> \o row.content

\* A variant: the query without its ORDER BY clause.
get_context_for_session_by_rowid(cm, session_id, max_chunks, content_types) ==
    LET Listed(r) == \E i \in 1..Len(content_types) : content_types[i] = r.content_type
        rows == RowsById({r \in cm.context_chunks :
                            /\ r.session_id = session_id
                            /\ (content_types # <<>> => Listed(r))})
        page == Take(rows, max_chunks)
    IN  JoinWith([i \in 1..Len(page) |-> chunk_part(page[i])], <<"\n", "\n">>)

get_context_for_session(cm, session_id, max_chunks, content_types) ==
    LET Listed(r) == \E i \in 1..Len(content_types) : content_types[i] = r.content_type
        rows == RowsById({r \in cm.context_chunks :
                            /\ r.session_id = session_id
                            /\ (content_types # <<>> => Listed(r))})
        page == Take(StableSortDesc(rows, RankedBefore), max_chunks)
    IN  JoinWith([i \in 1..Len(page) |-> chunk_part(page[i])], <<"\n", "\n">>)

\* A variant: DELETE FROM context_chunks without its WHERE clause.
delete_session_content_everywhere(cm, session_id) ==
    [cm |-> [cm EXCEPT !.context_chunks = {}],
     ret |-> cm.context_chunks # {}]

delete_session_content(cm, session_id) ==
    [cm |-> [cm EXCEPT !.context_chunks = {r \in @ : r.session_id # session_id}],
     ret |-> \E r \in cm.context_chunks : r.session_id = session_id]

(***************************************************************************)
(* The Memory System facade (EnhancedMemorySystem).                        *)
(***************************************************************************)
VARIABLES
    memory_system,      \* the module's global memory_system: which variant it is
    memory_enabled,     \* self.memory_enabled
    session_memory,     \* self.session_memory, the ephemeral buffer, newest first
    memory_db,          \* self.memory_db, the Storage Engine's tables
    context_manager,    \* self.context_manager, the Context Manager's table
    embedding_manager,  \* self.context_manager.embedding_manager
    clock,              \* the next instant datetime.now() returns
    last,               \* the last call made on the component, with its outcome
    save_log,           \* history: the snapshots created, with the name passed
    round_trip,         \* history: progress of a save / clear_all / load sequence
    threads,            \* each thread's threading.local slots and its frame in the façade
    connections         \* the sqlite3 connection objects created so far

vars == <<memory_system, memory_enabled, session_memory, memory_db, context_manager,
          embedding_manager, clock, last, save_log, round_trip,
                   threads, connections>>

NoEntryId == 0

\* self.session_id (session_<strftime of the construction instant>) and
\* str(self.project_path).
session_id == <<"s","e","s","s","i","o","n","_">> \o strftime(0)
project_path == <<"c", "w", "d">>

(***************************************************************************)
(* A facade method is an operator on a world w: the component's state      *)
(* together with what the environment does during the call.  db_fail = k   *)
(* > 0 makes the k-th Storage Engine call from now on raise (0: none       *)
(* does), cm_fail likewise for the Context Manager; load_ok and encode_ok  *)
(* are the embedding backend's outcomes.  A method yields the world after  *)
(* the call, the value returned (ret) and whether an exception leaves the  *)
(* method (raised).                                                        *)
(***************************************************************************)
World(env) ==
    [memory_enabled |-> memory_enabled, session_memory |-> session_memory,
     db |-> memory_db, cm |-> context_manager, em |-> embedding_manager,
     clock |-> clock, db_fail |-> env.db_fail, cm_fail |-> env.cm_fail,
     load_ok |-> env.load_ok, encode_ok |-> env.encode_ok, tie |-> env.tie]

Returned(w, ret) == [w |-> w, ret |-> ret, raised |-> FALSE]
Raised(w) == [w |-> w, ret |-> NULL, raised |-> TRUE]

DbRaises(w) == w.db_fail = 1
CmRaises(w) == w.cm_fail = 1
\* the world once a Storage Engine (Context Manager) call has been made
AfterDb(w) == [w EXCEPT !.db_fail = IF @ > 0 THEN @ - 1 ELSE 0]
AfterCm(w) == [w EXCEPT !.cm_fail = IF @ > 0 THEN @ - 1 ELSE 0]

\* A variant: the insertion without the truncation.
insert_entry_no_limit(buffer, entry) == <<entry>> \o buffer

\* self.session_memory.insert(0, entry) and the truncation to the limit.
insert_entry(buffer, entry) ==
    LET inserted == <<entry>> \o buffer
    IN  IF Len(inserted) > session_memory_limit
        THEN Take(inserted, session_memory_limit)
        ELSE inserted

\* entry.entry_id = entry_id: the entry is the object at the head of the
\* buffer (the limit is at least 1).
set_entry_id(buffer, entry_id) ==
    IF buffer = <<>> THEN buffer ELSE [buffer EXCEPT ![1].entry_id = entry_id]

\* A variant: the switch is not consulted.
add_refused_never(w) == FALSE

\* "if not self.memory_enabled: return -1"
add_refused(w) == ~w.memory_enabled

\* A variant: the call of add_content outside the try.
after_indexing_unguarded(w, entry_id, index_raised) ==
    IF index_raised THEN Raised(w)
    ELSE Returned([w EXCEPT !.session_memory = set_entry_id(@, entry_id)], entry_id)

\* "except Exception: pass" around context_manager.add_content, then
\* "entry.entry_id = entry_id; return entry_id".
after_indexing(w, entry_id, index_raised) ==
    Returned([w EXCEPT !.session_memory = set_entry_id(@, entry_id)], entry_id)

add_to_session_memory(w, content, content_type, tags, importance, metadata) ==
    IF add_refused(w) THEN Returned(w, -1)
    ELSE
    LET entry == [content |-> content, timestamp |-> w.clock,
                  content_type |-> content_type, tags |-> tags,
                  importance |-> importance, metadata |-> metadata,
                  entry_id |-> NoEntryId]
        w1 == [w EXCEPT !.session_memory = insert_entry(@, entry), !.clock = @ + 1]
    IN  IF DbRaises(w1) THEN Raised(AfterDb(w1))
        ELSE
        LET added == add_memory_entry(w1.db, session_id, content, content_type,
                                      importance, tags, metadata, w1.clock)
            w2 == [AfterDb(w1) EXCEPT !.db = added.db, !.clock = @ + 1]
            indexed == add_content(w2.cm, w2.em, session_id, content, content_type,
                                   importance, tags, metadata, w2.clock,
                                   w2.load_ok, w2.encode_ok,
                                   IF CmRaises(w2) THEN 1 ELSE 0)
            w3 == [AfterCm(w2) EXCEPT !.cm = indexed.cm, !.em = indexed.em,
                                      !.clock = indexed.clock]
        IN  after_indexing(w3, added.ret, indexed.raised)

chunk_to_entry(chunk) ==
    [content |-> chunk.content, timestamp |-> chunk.created_at,
     content_type |-> chunk.content_type, tags |-> chunk.tags,
     importance |-> chunk.importance, metadata |-> chunk.metadata,
     entry_id |-> chunk.id]

row_to_entry(row) ==
    [content |-> row.content, timestamp |-> row.created_at,
     content_type |-> row.content_type, tags |-> row.tags,
     importance |-> row.importance, metadata |-> row.metadata,
     entry_id |-> row.id]

\* A variant: the three lists in the opposite order.
combine_persistent_first(context_entries, ephemeral_results, persistent_entries) ==
    persistent_entries \o ephemeral_results \o context_entries

\* "context results first (more relevant), then ephemeral, then persistent"
combine(context_entries, ephemeral_results, persistent_entries) ==
    context_entries \o ephemeral_results \o persistent_entries

\* Keep the first entry of each content (the md5 of the content decides).
RECURSIVE unique(_, _)
unique(all_results, seen_contents) ==
    IF all_results = <<>> THEN <<>>
    ELSE LET entry == Head(all_results)
             content_hash == hash_content(entry.content)
         IN  IF content_hash \notin seen_contents
             THEN <<entry>> \o unique(Tail(all_results), seen_contents \cup {content_hash})
             ELSE unique(Tail(all_results), seen_contents)

\* key=lambda x: (x.importance, x.timestamp), reverse=True
EntryBefore(a, b) ==
    \/ a.importance > b.importance
    \/ a.importance = b.importance /\ a.timestamp > b.timestamp

ephemeral_matches(buffer, query) ==
    LET Hit(entry) == Contains(Lower(entry.content), Lower(query))
    IN  SelectSeq(buffer, Hit)

context_matches(w, query, max_results) ==
    LET found == search_by_similarity(w.cm, w.em, session_id, query, max_results,
                                      3, 10, w.load_ok, w.encode_ok, w.tie)
    IN  [em |-> found.em,
         ret |-> IF CmRaises(w) THEN <<>>
                 ELSE [i \in 1..Len(found.ret) |-> chunk_to_entry(found.ret[i])]]

persistent_matches(w, query, content_type, max_results) ==
    LET rows == search_memory(w.db, session_id, query, content_type, max_results)
    IN  [i \in 1..Len(rows) |-> row_to_entry(rows[i])]

search_session_memory(w, query, content_type, max_results) ==
    IF ~w.memory_enabled THEN Returned(w, <<>>)
    ELSE
    LET ephemeral_results == ephemeral_matches(w.session_memory, query)
        context == context_matches(w, query, max_results)
        w1 == [AfterCm(w) EXCEPT !.em = context.em]
    IN  IF DbRaises(w1) THEN Raised(AfterDb(w1))
        ELSE
        LET persistent_entries == persistent_matches(w1, query, content_type, max_results)
            all_results == combine(context.ret, ephemeral_results, persistent_entries)
            unique_results == StableSortDesc(unique(all_results, {}), EntryBefore)
        IN  Returned(AfterDb(w1), Take(unique_results, max_results))

\* A variant: the empty string instead of the fallback.
get_context_no_fallback(w, max_entries, include_types) ==
    IF ~w.memory_enabled \/ CmRaises(w) THEN Returned(AfterCm(w), <<>>)
    ELSE Returned(AfterCm(w),
                  get_context_for_session(w.cm, session_id, max_entries, include_types))

get_context(w, max_entries, include_types) ==
    IF ~w.memory_enabled THEN Returned(w, <<>>)
    ELSE IF ~CmRaises(w)
    THEN Returned(AfterCm(w),
                  get_context_for_session(w.cm, session_id, max_entries, include_types))
    ELSE IF DbRaises(AfterCm(w)) THEN Raised(AfterDb(AfterCm(w)))
    ELSE Returned(AfterDb(AfterCm(w)),
                  get_session_context(w.db, session_id, max_entries, include_types))

clear_session_memory(w) == Returned([w EXCEPT !.session_memory = <<>>], NULL)

clear_persistent_memory(w) ==
    IF DbRaises(w) THEN Raised(AfterDb(w))
    ELSE LET w1 == [AfterDb(w) EXCEPT !.db = delete_session_memory(@, session_id).db]
         IN  IF CmRaises(w1) THEN Returned(AfterCm(w1), NULL)
             ELSE Returned([AfterCm(w1) EXCEPT
                              !.cm = delete_session_content(@, session_id).cm], NULL)

clear_all_memory(w) == clear_persistent_memory(clear_session_memory(w).w)

\* A variant: disabling clears the durable stores as well.
set_memory_enabled_clearing_all(w, enabled) ==
    LET w1 == [w EXCEPT !.memory_enabled = enabled]
    IN  IF ~enabled THEN clear_all_memory(w1) ELSE Returned(w1, NULL)

set_memory_enabled(w, enabled) ==
    LET w1 == [w EXCEPT !.memory_enabled = enabled]
    IN  IF ~enabled THEN clear_session_memory(w1) ELSE Returned(w1, NULL)

\* f"saved_{session_name}_{datetime.now().strftime('%Y%m%d_%H%M%S_%f')}"
backup_id(session_name, now) ==
    <<"s","a","v","e","d","_">> \o session_name \o <<"_">> \o strftime(now)

\* A variant: a snapshot of the first entry only.
snapshot_first(db, sid) == get_memory_entries(db, sid, 1, 0)

\* get_memory_entries(..., limit=10000): the entries a snapshot copies.
snapshot_entries(db, sid) == get_memory_entries(db, sid, SnapshotLimit, 0)

\* A variant: the copy loop runs from the last entry to the first.
RECURSIVE copy_entries_backwards(_, _, _, _)
copy_entries_backwards(w, entries, k, backup_session_id) ==
    IF k > Len(entries) THEN Returned(w, TRUE)
    ELSE IF DbRaises(w) THEN Returned(AfterDb(w), FALSE)
    ELSE LET e == entries[Len(entries) + 1 - k]
             added == add_memory_entry(w.db, backup_session_id, e.content,
                                       e.content_type, e.importance, e.tags,
                                       e.metadata, w.clock)
         IN  copy_entries_backwards([AfterDb(w) EXCEPT !.db = added.db,
                                                       !.clock = @ + 1],
                                    entries, k + 1, backup_session_id)

\* The copy loop of save_session_memory from entry k on.
RECURSIVE copy_entries(_, _, _, _)
copy_entries(w, entries, k, backup_session_id) ==
    IF k > Len(entries) THEN Returned(w, TRUE)
    ELSE IF DbRaises(w) THEN Returned(AfterDb(w), FALSE)
    ELSE LET e == entries[k]
             added == add_memory_entry(w.db, backup_session_id, e.content,
                                       e.content_type, e.importance, e.tags,
                                       e.metadata, w.clock)
         IN  copy_entries([AfterDb(w) EXCEPT !.db = added.db, !.clock = @ + 1],
                          entries, k + 1, backup_session_id)

save_session_memory(w, session_name) ==
    LET backup_session_id == backup_id(session_name, w.clock)
        w1 == [w EXCEPT !.clock = @ + 1]
    IN  IF DbRaises(w1) THEN Returned(AfterDb(w1), FALSE)
        ELSE
        LET created == create_session(w1.db, backup_session_id, project_path,
                                      NoMeta, w1.clock)
            w2 == [AfterDb(w1) EXCEPT !.db = created.db, !.clock = @ + 1]
        IN  IF DbRaises(w2) THEN Returned(AfterDb(w2), FALSE)
            ELSE copy_entries(AfterDb(w2), snapshot_entries(w2.db, session_id),
                              1, backup_session_id)

\* SELECT session_id FROM sessions WHERE session_id LIKE ? ORDER BY created_at
\* DESC LIMIT 1 with the parameter f"saved_{session_name}_%": the rows found
\* (none or one).
SessionBefore(a, b) == a.created_at > b.created_at

RECURSIVE SessionsInOrder(_)
SessionsInOrder(rows) ==
    IF rows = {} THEN <<>>
    ELSE LET r == CHOOSE x \in rows : \A y \in rows : x.created_at <= y.created_at
         IN  <<r>> \o SessionsInOrder(rows \ {r})

like_pattern(session_name) == <<"s","a","v","e","d","_">> \o session_name \o <<"_", "%">>

find_backup(db, session_name) ==
    LET pattern == like_pattern(session_name)
        rows == SessionsInOrder({s \in db.sessions : Like(s.session_id, pattern)})
    IN  Take(StableSortDesc(rows, SessionBefore), 1)

\* session_id.split('_', 2)[1] of an id that starts with 'saved_': the text
\* between the first underscore and the second one (or the end).
RECURSIVE UpToUnderscore(_, _)
UpToUnderscore(s, i) ==
    IF i > Len(s) THEN <<>>
    ELSE IF s[i] = "_" THEN <<>>
    ELSE <<s[i]>> \o UpToUnderscore(s, i + 1)

split_name(sid) == UpToUnderscore(sid, 7)

\* The seen / session_names loop: each name once, in the order first met.
RECURSIVE names_once(_, _, _)
names_once(rows, k, session_names) ==
    IF k > Len(rows) THEN session_names
    ELSE LET name == split_name(rows[k].session_id)
             Same(n) == n = name
         IN  IF ~StartsWith(rows[k].session_id, <<"s","a","v","e","d","_">>)
                \/ SelectSeq(session_names, Same) # <<>>
             THEN names_once(rows, k + 1, session_names)
             ELSE names_once(rows, k + 1, Append(session_names, name))

\* SELECT DISTINCT session_id FROM sessions WHERE session_id LIKE 'saved_%'
\* ORDER BY created_at DESC; any exception gives the empty list.
get_available_sessions(w) ==
    IF DbRaises(w) THEN Returned(AfterDb(w), <<>>)
    ELSE LET rows == SessionsInOrder({s \in w.db.sessions :
                        Like(s.session_id, <<"s","a","v","e","d","_","%">>)})
             results == StableSortDesc(rows, SessionBefore)
         IN  Returned(AfterDb(w), names_once(results, 1, <<>>))

\* The re-insertion loop of load_session_memory from entry k on.
RECURSIVE reinsert_entries(_, _, _)
reinsert_entries(w, entries, k) ==
    IF k > Len(entries) THEN Returned(w, TRUE)
    ELSE LET e == entries[k]
             r == add_to_session_memory(w, e.content, e.content_type, e.tags,
                                        e.importance, e.metadata)
         IN  IF r.raised THEN Returned(r.w, FALSE)
             ELSE reinsert_entries(r.w, entries, k + 1)

load_session_memory(w, session_name) ==
    IF DbRaises(w) THEN Returned(AfterDb(w), FALSE)
    ELSE
    LET result == find_backup(w.db, session_name)
        w1 == AfterDb(w)
    IN  IF result = <<>> THEN Returned(w1, FALSE)
        ELSE
        LET backup_session_id == result[1].session_id
            cleared == clear_all_memory(w1)
        IN  IF cleared.raised THEN Returned(cleared.w, FALSE)
            ELSE IF DbRaises(cleared.w) THEN Returned(AfterDb(cleared.w), FALSE)
            ELSE reinsert_entries(AfterDb(cleared.w),
                                  snapshot_entries(cleared.w.db, backup_session_id), 1)

\* AVG(importance) as the exact fraction num / den; "or 0.0" for no rows.
RECURSIVE SumImportance(_)
SumImportance(rows) ==
    IF rows = {} THEN 0
    ELSE LET r == CHOOSE x \in rows : TRUE
         IN  r.importance + SumImportance(rows \ {r})

average_importance(rows) ==
    IF rows = {} \/ SumImportance(rows) = 0 THEN [num |-> 0, den |-> 1]
    ELSE [num |-> SumImportance(rows), den |-> Cardinality(rows)]

Latest(rows, Stamp(_)) ==
    IF rows = {} THEN <<>>
    ELSE isoformat(Stamp(CHOOSE x \in rows : \A y \in rows : Stamp(x) >= Stamp(y)))

UpdatedAt(r) == r.updated_at
CreatedAt(r) == r.created_at

content_type_counts(rows) ==
    [ct \in {r.content_type : r \in rows} |->
        Cardinality({r \in rows : r.content_type = ct})]

\* MemoryDatabase.get_session_summary
db_session_summary(db, sid) ==
    LET rows == {r \in db.memory_entries : r.session_id = sid}
    IN  [total_entries |-> Cardinality(rows),
         average_importance |-> average_importance(rows),
         content_type_counts |-> content_type_counts(rows),
         last_updated |-> Latest(rows, UpdatedAt)]

\* ContextManager.get_session_stats
get_session_stats(cm, sid) ==
    LET rows == {r \in cm.context_chunks : r.session_id = sid}
    IN  [total_chunks |-> Cardinality(rows),
         average_importance |-> average_importance(rows),
         last_updated |-> Latest(rows, CreatedAt),
         content_type_distribution |-> content_type_counts(rows)]

\* EnhancedMemorySystem.get_memory_stats, through get_session_summary:
\* {**basic_stats, **context_stats} lets the Context Manager's
\* average_importance and last_updated replace the Storage Engine's.
get_memory_stats(w) ==
    IF DbRaises(w) THEN Raised(AfterDb(w))
    ELSE
    LET basic_stats == db_session_summary(w.db, session_id)
        context_stats == get_session_stats(w.cm, session_id)
        from_context == ~CmRaises(w)
    IN  Returned(AfterCm(AfterDb(w)),
                 [session_id |-> session_id,
                  ephemeral_entries |-> Len(w.session_memory),
                  persistent_entries |-> basic_stats.total_entries,
                  average_importance |-> IF from_context
                                         THEN context_stats.average_importance
                                         ELSE basic_stats.average_importance,
                  content_type_distribution |-> basic_stats.content_type_counts,
                  last_updated |-> IF from_context THEN context_stats.last_updated
                                   ELSE basic_stats.last_updated,
                  project_path |-> project_path])

(***************************************************************************)
(* The values the calls are made with.                                     *)
(***************************************************************************)
EntryA  == [content |-> <<"a">>, content_type |-> "text", tags |-> NoTags,
            importance |-> 9, metadata |-> NoMeta]
EntryAb == [content |-> <<"A", "b">>, content_type |-> "code", tags |-> TagT,
            importance |-> 5, metadata |-> MetaKA]
EntryB  == [content |-> <<"b">>, content_type |-> "text", tags |-> NoTags,
            importance |-> 9, metadata |-> NoMeta]
Entries == {EntryA, EntryAb, EntryB}

Queries == {<<"A">>, <<>>}
TypeFilters == {NULL, "text"}
ResultLimits == {1, 10}
ContextLimits == {1, 20}
TypeLists == {<<>>, <<"code">>}
SessionNames == {<<"a">>, <<"a", "_", "b">>}

\* What the environment may do during a call: nothing goes wrong in Healthy
\* (the embedding model may still be absent or fail to load); in Faulty the
\* stores may raise and an encoding may fail.
Healthy ==
    [db_fail : {0}, cm_fail : {0}, load_ok : BOOLEAN, encode_ok : {TRUE},
     tie : {"rowid", "reverse"}]
Faulty ==
    [db_fail : 0..MaxFaultAt, cm_fail : 0..1, load_ok : {TRUE}, encode_ok : BOOLEAN,
     tie : {"rowid"}]
Quiet == [db_fail |-> 0, cm_fail |-> 0, load_ok |-> TRUE, encode_ok |-> TRUE,
          tie |-> "rowid"]
\* the environments that differ in what the embedding backend does
Loading == {env \in Healthy : env.tie = "rowid"}
\* the environments that differ in the order a keyword search scans in
Scanning == {env \in Healthy : env.load_ok}

(***************************************************************************)
(* Actions: one per facade method.  last records the call when it returns  *)
(* a value; a call that returns None is recorded as "void".                *)
(***************************************************************************)
Apply(r) ==
    /\ memory_system' = memory_system
    /\ memory_enabled' = r.w.memory_enabled
    /\ session_memory' = r.w.session_memory
    /\ memory_db' = r.w.db
    /\ context_manager' = r.w.cm
    /\ embedding_manager' = r.w.em
    /\ clock' = r.w.clock

\* last keeps, of the environment, only which store was made to fail, and
\* whether the call reached the Storage Engine call that raises.
Call(op, args, env, r) ==
    /\ Apply(r)
    /\ last' = [op |-> op, args |-> args, db_fail |-> env.db_fail,
                cm_fail |-> env.cm_fail, ret |-> r.ret, raised |-> r.raised,
                db_raised |-> (env.db_fail > 0 /\ r.w.db_fail = 0)]

CallVoid(env, r) == Call("void", <<>>, env, r)

NoRoundTrip == [phase |-> 0, name |-> <<>>, before |-> EmptyBag, ranked |-> <<>>]

\* The contents get_memory_entries returns for a session, in its order.
RankedContents(db, sid) ==
    LET rows == get_memory_entries(db, sid, DefaultLimit, 0)
    IN  [i \in 1..Len(rows) |-> rows[i].content]

\* The threads that call the façade.  Before a thread's first call its
\* threading.local() objects hold no connection attribute, and it is in no
\* façade method.
Threads == {"T1", "T2"}
NoConnection == 0
NoThreads == [t \in Threads |-> [db_connection |-> NoConnection,
                                 cm_connection |-> NoConnection,
                                 frame |-> <<>>]]

\* The contents of a session's persistent entries, as a bag.
RECURSIVE BagOfContents(_)
BagOfContents(rows) ==
    IF rows = {} THEN EmptyBag
    ELSE LET r == CHOOSE x \in rows : TRUE
         IN  SetToBag({r.content}) (+) BagOfContents(rows \ {r})

PersistentContents(db, sid) ==
    BagOfContents({r \in db.memory_entries : r.session_id = sid})

AddToSessionMemory(e, env) ==
    /\ Call("add_to_session_memory", e, env,
            add_to_session_memory(World(env), e.content, e.content_type, e.tags,
                                  e.importance, e.metadata))
    /\ round_trip' = NoRoundTrip
    /\ UNCHANGED <<save_log, threads, connections>>

SearchSessionMemory(query, content_type, max_results, env) ==
    /\ Call("search_session_memory",
            [query |-> query, content_type |-> content_type,
             max_results |-> max_results, load_ok |-> env.load_ok, tie |-> env.tie],
            env, search_session_memory(World(env), query, content_type, max_results))
    /\ round_trip' = NoRoundTrip
    /\ UNCHANGED <<save_log, threads, connections>>

GetContext(max_entries, include_types, env) ==
    /\ Call("get_context",
            [max_entries |-> max_entries, include_types |-> include_types], env,
            get_context(World(env), max_entries, include_types))
    /\ round_trip' = NoRoundTrip
    /\ UNCHANGED <<save_log, threads, connections>>

GetMemoryStats(env) ==
    /\ Call("get_memory_stats", <<>>, env, get_memory_stats(World(env)))
    /\ round_trip' = NoRoundTrip
    /\ UNCHANGED <<save_log, threads, connections>>

ClearSessionMemory ==
    /\ CallVoid(Quiet, clear_session_memory(World(Quiet)))
    /\ round_trip' = NoRoundTrip
    /\ UNCHANGED <<save_log, threads, connections>>

ClearPersistentMemory(env) ==
    /\ CallVoid(env, clear_persistent_memory(World(env)))
    /\ round_trip' = NoRoundTrip
    /\ UNCHANGED <<save_log, threads, connections>>

ClearAllMemory(env) ==
    LET r == clear_all_memory(World(env))
    IN  /\ CallVoid(env, r)
        /\ round_trip' = IF round_trip.phase = 1 /\ ~r.raised
                         THEN [round_trip EXCEPT !.phase = 2]
                         ELSE NoRoundTrip
        /\ UNCHANGED <<save_log, threads, connections>>

SetMemoryEnabled(enabled) ==
    /\ CallVoid(Quiet, set_memory_enabled(World(Quiet), enabled))
    /\ round_trip' = NoRoundTrip
    /\ UNCHANGED <<save_log, threads, connections>>

SaveSessionMemory(session_name, env) ==
    LET r == save_session_memory(World(env), session_name)
    IN  /\ Call("save_session_memory", session_name, env, r)
        /\ save_log' = IF r.ret
                       THEN Append(save_log,
                                   [name |-> session_name,
                                    session_id |-> backup_id(session_name, clock)])
                       ELSE save_log
        /\ round_trip' = IF r.ret /\ memory_enabled
                         THEN [phase |-> 1, name |-> session_name,
                               before |-> PersistentContents(memory_db, session_id),
                               ranked |-> RankedContents(memory_db, session_id)]
                         ELSE NoRoundTrip
        /\ UNCHANGED <<threads, connections>>

LoadSessionMemory(session_name, env) ==
    LET r == load_session_memory(World(env), session_name)
    IN  /\ Call("load_session_memory", session_name, env, r)
        /\ round_trip' = IF round_trip.phase = 2 /\ round_trip.name = session_name
                         THEN [round_trip EXCEPT !.phase = 3]
                         ELSE NoRoundTrip
        /\ UNCHANGED <<save_log, threads, connections>>

(***************************************************************************)
(* The state after EnhancedMemorySystem() on empty stores: the session row *)
(* exists, memory is enabled, the buffer is empty, and the embedding       *)
(* libraries are importable or not.                                        *)
(***************************************************************************)
NoCall == [op |-> "init", args |-> <<>>, db_fail |-> 0, cm_fail |-> 0,
           ret |-> NULL, raised |-> FALSE, db_raised |-> FALSE]

Init ==
    /\ memory_system = "EnhancedMemorySystem"
    /\ memory_enabled = TRUE
    /\ session_memory = <<>>
    /\ memory_db = create_session(EmptyDb, session_id, project_path, NoMeta, 1).db
    /\ context_manager = EmptyCm
    /\ embedding_manager \in [embeddings_available : BOOLEAN, model_loaded : {FALSE}]
    /\ clock = 2
    /\ last = NoCall
    /\ save_log = <<>>
    /\ round_trip = NoRoundTrip
    /\ threads = NoThreads
    /\ connections = <<>>

\* Construction where the embedding libraries are not installed.
InitPlain == Init /\ ~embedding_manager.embeddings_available

\* Guards that keep the model finite: the entry ids handed out and the
\* session rows stay within the bounds.
EntriesOf(sid) == {r \in memory_db.memory_entries : r.session_id = sid}

RoomFor(n, bound) == memory_db.entry_seq + n <= bound

RoomToSave(bound) ==
    /\ Cardinality(memory_db.sessions) < MaxSessions
    /\ RoomFor(Cardinality(EntriesOf(session_id)), bound)

RoomToLoad(session_name, bound) ==
    LET found == find_backup(memory_db, session_name)
    IN  IF found = <<>> THEN TRUE
        ELSE RoomFor(Cardinality(EntriesOf(found[1].session_id)), bound)

(***************************************************************************)
(* Spec: the session lifecycle (add, clear, save, load) on healthy stores. *)
(***************************************************************************)
LifecycleEntries == {EntryA, EntryAb}

Next ==
    \/ \E e \in LifecycleEntries : RoomFor(1, MaxEntrySeq) /\ AddToSessionMemory(e, Quiet)
    \/ ClearAllMemory(Quiet)
    \/ \E name \in SessionNames : RoomToSave(MaxEntrySeq) /\ SaveSessionMemory(name, Quiet)
    \/ \E name \in SessionNames :
          RoomToLoad(name, MaxEntrySeq) /\ LoadSessionMemory(name, Quiet)

Spec == InitPlain /\ [][Next]_vars

(***************************************************************************)
(* Claims on the session lifecycle.                                        *)
(***************************************************************************)

SavedAs(name) ==
    LET Mine(x) == x.name = name
    IN  SelectSeq(save_log, Mine)

\* C2: load_session_memory(n), when it returns True, has restored the most
\* recently created snapshot that was saved under the name n: a snapshot
\* saved under n exists and the current session holds the contents of the
\* newest of them.
C2_LoadsNewestOfName ==
    (last.op = "load_session_memory" /\ last.ret = TRUE) =>
        LET mine == SavedAs(last.args)
        IN  /\ mine # <<>>
            /\ PersistentContents(memory_db, session_id) =
                   PersistentContents(memory_db, mine[Len(mine)].session_id)

(***************************************************************************)
(* SpecSearch: adding, clearing, switching memory on and off, and the      *)
(* read calls (search, context, statistics) on healthy stores, with the    *)
(* embedding backend present, absent or failing to load.                   *)
(***************************************************************************)

NextSearch ==
    \/ \E e \in Entries, env \in Loading :
          RoomFor(1, MaxSearchEntries) /\ AddToSessionMemory(e, env)
    \/ ClearSessionMemory
    \/ ClearPersistentMemory(Quiet)
    \/ \E enabled \in BOOLEAN : SetMemoryEnabled(enabled)
    \/ \E q \in Queries, ct \in TypeFilters, n \in ResultLimits, env \in Scanning :
          SearchSessionMemory(q, ct, n, env)
    \/ \E n \in ContextLimits, ts \in TypeLists : GetContext(n, ts, Quiet)
    \/ GetMemoryStats(Quiet)

SpecSearch == Init /\ [][NextSearch]_vars

\* What get_memory_stats would show now.
StatsView == get_memory_stats(World(Quiet)).ret

\* C5: with memory_enabled false, add_to_session_memory returns -1 and leaves
\* the ephemeral buffer, the Storage Engine's entries and the Context
\* Manager's chunks as they were, so get_memory_stats shows what it showed.
C5_DisabledAddIsNoOp ==
    [][(~memory_enabled /\ last'.op = "add_to_session_memory") =>
          /\ last'.ret = -1
          /\ ~last'.raised
          /\ UNCHANGED <<session_memory, memory_db, context_manager>>
          /\ StatsView' = StatsView]_vars

\* An add was refused while the session holds persistent entries.
C5_Witness ==
    /\ ~memory_enabled
    /\ last.op = "add_to_session_memory"
    /\ last.ret = -1
    /\ EntriesOf(session_id) # {}
    /\ context_manager.context_chunks # {}

\* The first entry of a list with the given content.
FirstWith(entries, content) ==
    LET Same(e) == e.content = content
    IN  SelectSeq(entries, Same)[1]

HasContent(entries, content) == \E k \in 1..Len(entries) : entries[k].content = content

\* result is the merge of the three sources in priority order.
Merged(result, context_entries, ephemeral_results, persistent_entries, max_results) ==
    LET sources == context_entries \o ephemeral_results \o persistent_entries
    IN  /\ Len(result) <= max_results
        /\ \A i, j \in 1..Len(result) : i < j => result[i].content # result[j].content
        /\ \A i, j \in 1..Len(result) : i < j => ~EntryBefore(result[j], result[i])
        /\ \A i \in 1..Len(result) :
              LET c == result[i].content
              IN  IF HasContent(context_entries, c)
                  THEN result[i] = FirstWith(context_entries, c)
                  ELSE IF HasContent(ephemeral_results, c)
                  THEN result[i] = FirstWith(ephemeral_results, c)
                  ELSE /\ HasContent(persistent_entries, c)
                       /\ result[i] = FirstWith(persistent_entries, c)
        /\ Len(result) < max_results =>
              \A k \in 1..Len(sources) : HasContent(result, sources[k].content)

\* The world a search recorded in last was made in.  A search changes none
\* of the three sources, so they are read in the state the call returned in;
\* the embedding outcomes the call met are those recorded with it.
SearchWorld(args) ==
    World([Quiet EXCEPT !.load_ok = args.load_ok, !.tie = args.tie])

\* C8: search_session_memory returns the merge of the Context Manager's
\* results, the ephemeral substring matches and the Storage Engine's
\* substring matches: no content twice, for a content found in several
\* sources the entry of the highest-priority source, ordered by (importance,
\* timestamp) descending, at most max_results entries.
C8_SearchMerges ==
    (memory_enabled /\ last.op = "search_session_memory" /\ ~last.raised) =>
        LET a == last.args
            w == SearchWorld(a)
        IN  Merged(last.ret,
                   context_matches(w, a.query, a.max_results).ret,
                   ephemeral_matches(session_memory, a.query),
                   persistent_matches(w, a.query, a.content_type, a.max_results),
                   a.max_results)

\* A search has returned, for a content held by all three sources, the
\* Context Manager's entry, which differs from the entries of the other two.
C8_Witness ==
    /\ last.op = "search_session_memory"
    /\ Len(last.ret) >= 2
    /\ \E i \in 1..Len(last.ret) :
          /\ \E r \in context_manager.context_chunks :
                chunk_to_entry(to_chunk(r)) = last.ret[i]
          /\ \E k \in 1..Len(session_memory) :
                /\ session_memory[k].content = last.ret[i].content
                /\ session_memory[k] # last.ret[i]
          /\ \E r \in EntriesOf(session_id) :
                /\ r.content = last.ret[i].content
                /\ row_to_entry(row_to_dict(r)) # last.ret[i]

(***************************************************************************)
(* SpecFail: the facade on stores that fail.  Each call is made in an      *)
(* environment that says which Storage Engine call of it raises (the       *)
(* first, the second, ... or none), whether the Context Manager call       *)
(* raises, and whether the embedding model fails to encode.                *)
(***************************************************************************)
FaultNames == {<<"a">>}
FaultQueries == {<<"A">>}
Failing == {env \in Faulty : env.encode_ok}

\* A failing call still reads the clock: the calls that read it are made
\* while the clock is below the bound.
Early == clock < MaxFaultClock

NextFail ==
    \/ \E env \in Failing :
          Early /\ RoomFor(1, MaxFaultEntries) /\ AddToSessionMemory(EntryA, env)
    \/ \E q \in FaultQueries, env \in Failing : SearchSessionMemory(q, NULL, 10, env)
    \/ \E env \in Failing : GetContext(20, <<>>, env)
    \/ \E name \in FaultNames, env \in Failing :
          /\ Early
          /\ Cardinality(memory_db.sessions) < MaxFaultSessions
          /\ RoomFor(Cardinality(EntriesOf(session_id)), MaxFaultEntries)
          /\ SaveSessionMemory(name, env)
    \/ \E name \in FaultNames, env \in Failing :
          Early /\ RoomToLoad(name, MaxFaultEntries) /\ LoadSessionMemory(name, env)

SpecFail == InitPlain /\ [][NextFail]_vars

\* C9: with memory enabled, get_context returns what the Context Manager's
\* get_context_for_session returns when that call does not raise; when it
\* raises, get_context returns what the Storage Engine's get_session_context
\* returns for the same session, max_entries and include_types.
C9_ContextFallback ==
    (memory_enabled /\ last.op = "get_context" /\ ~last.raised) =>
        IF last.cm_fail = 0
        THEN last.ret = get_context_for_session(context_manager, session_id,
                                                last.args.max_entries,
                                                last.args.include_types)
        ELSE last.ret = get_session_context(memory_db, session_id,
                                            last.args.max_entries,
                                            last.args.include_types)

\* get_context has fallen back to the Storage Engine, whose text is not the
\* text the Context Manager would have returned.
C9_Witness ==
    /\ memory_enabled
    /\ last.op = "get_context"
    /\ last.cm_fail = 1
    /\ ~last.raised
    /\ last.ret # <<>>
    /\ last.ret # get_context_for_session(context_manager, session_id,
                                          last.args.max_entries,
                                          last.args.include_types)

FacadeCalls == {"add_to_session_memory", "search_session_memory", "get_context",
                "save_session_memory", "load_session_memory"}

\* C10: a Storage Engine failure never escapes the facade.  When a
\* MemoryDatabase operation has raised during add_to_session_memory,
\* search_session_memory, get_context, save_session_memory or
\* load_session_memory, the call has not raised and has returned -1, the
\* empty list, the empty string or False respectively.
C10_StorageFailureContained ==
    (last.op \in FacadeCalls /\ last.db_raised) =>
        IF last.raised THEN FALSE
        ELSE CASE last.op = "add_to_session_memory" -> last.ret = -1
               [] last.op = "search_session_memory" -> last.ret = <<>>
               [] last.op = "get_context" -> last.ret = <<>>
               [] OTHER -> last.ret = FALSE
(***************************************************************************)
(* SpecCM: the Context Manager on its own.  Contents are indexed under two *)
(* sessions and deleted by session; one content is long enough to be cut   *)
(* into three chunks, the first two of which are the same text.            *)
(***************************************************************************)
CmSessions == {session_id, <<"o">>}
LongText == [i \in 1..(2 * DefaultChunkSize + 1) |-> "a"]
CmTexts == {<<"a">>, <<>>, LongText}

AddContent(sid, content, env) ==
    LET r == add_content(context_manager, embedding_manager, sid, content, "text",
                         10, NoTags, NoMeta, clock, env.load_ok, env.encode_ok, 0)
    IN  /\ context_manager' = r.cm
        /\ embedding_manager' = r.em
        /\ clock' = r.clock
        /\ last' = [op |-> "add_content",
                    args |-> [session_id |-> sid, content |-> content],
                    db_fail |-> 0, cm_fail |-> 0, ret |-> r.ret,
                    raised |-> r.raised, db_raised |-> FALSE]
        /\ UNCHANGED <<memory_system, memory_enabled, session_memory, memory_db, save_log, round_trip,
                   threads, connections>>

DeleteSessionContent(sid) ==
    LET r == delete_session_content(context_manager, sid)
    IN  /\ context_manager' = r.cm
        /\ last' = [op |-> "delete_session_content", args |-> sid,
                    db_fail |-> 0, cm_fail |-> 0, ret |-> r.ret,
                    raised |-> FALSE, db_raised |-> FALSE]
        /\ UNCHANGED <<memory_system, memory_enabled, session_memory, memory_db, embedding_manager,
                       clock, save_log, round_trip,
                   threads, connections>>

NextCM ==
    \/ \E sid \in CmSessions, content \in CmTexts :
          /\ clock < MaxCmClock
          /\ context_manager.chunk_seq < MaxCmChunks
          /\ AddContent(sid, content, Quiet)
    \/ \E sid \in CmSessions : DeleteSessionContent(sid)

SpecCM == Init /\ [][NextCM]_vars

\* C3: add_content called again with the text and the session of the call
\* before it stores nothing: the table of chunks is what it was, the call
\* returns the empty list of new chunk ids and does not raise.
C3_AddContentIdempotent ==
    [][(/\ last.op = "add_content"
        /\ ~last.raised
        /\ last'.op = "add_content"
        /\ last'.args = last.args) =>
          /\ context_manager'.context_chunks = context_manager.context_chunks
          /\ last'.ret = <<>>
          /\ ~last'.raised]_vars

\* The long text has been indexed again: the call returned no new id and the
\* session holds the two rows of its two distinct chunks.
C3_Witness ==
    /\ last.op = "add_content"
    /\ last.args.content = LongText
    /\ last.ret = <<>>
    /\ Len(chunk_text(LongText, DefaultChunkSize, DefaultOverlap)) = 3
    /\ Cardinality({r \in context_manager.context_chunks :
                      r.session_id = last.args.session_id}) = 2
(***************************************************************************)
(* SpecCap: more entries are added than the ephemeral buffer holds.  The   *)
(* first entries are any of two (importance 0.9 or 0.5), the later ones    *)
(* are the entry of importance 0.5.                                        *)
(***************************************************************************)
CapEntries == IF memory_db.entry_seq < MaxCapFree THEN LifecycleEntries ELSE {EntryAb}

NextCap ==
    \E e \in CapEntries : RoomFor(1, MaxCapAdds) /\ AddToSessionMemory(e, Quiet)

SpecCap == InitPlain /\ [][NextCap]_vars

\* The persistent entry with the given id (every add of SpecCap stores one,
\* so the ids count the insertions).
Inserted(k) == CHOOSE r \in memory_db.memory_entries : r.id = k

\* C4: the ephemeral buffer never holds more than session_memory_limit
\* entries; after n insertions it holds the min(n, limit) most recent ones,
\* newest first, whatever their importance.
C4_BufferKeepsNewest ==
    LET n == memory_db.entry_seq
    IN  /\ Len(session_memory) <= session_memory_limit
        /\ Len(session_memory) =
              (IF n > session_memory_limit THEN session_memory_limit ELSE n)
        /\ \A i \in 1..Len(session_memory) :
              /\ session_memory[i].entry_id = n - i + 1
              /\ session_memory[i].content = Inserted(n - i + 1).content
              /\ session_memory[i].importance = Inserted(n - i + 1).importance

\* More entries than the limit have been inserted, and the first of them,
\* which is more important than every entry the buffer holds, is gone.
C4_Witness ==
    /\ memory_db.entry_seq > session_memory_limit
    /\ Len(session_memory) = session_memory_limit
    /\ \A i \in 1..Len(session_memory) :
          /\ session_memory[i].entry_id # 1
          /\ session_memory[i].importance < Inserted(1).importance
(***************************************************************************)
(* SpecChunk: chunk_text on every text of up to MaxChunkText characters    *)
(* over two letters, for every chunk_size up to MaxChunkSize and every     *)
(* overlap below it.  The initial state holds the arguments, the one       *)
(* action makes the call.                                                  *)
(***************************************************************************)
ChunkLetters == {"a", "b"}
ChunkTexts == UNION {[1..n -> ChunkLetters] : n \in 0..MaxChunkText}
ChunkArgs ==
    {x \in [text : ChunkTexts, chunk_size : 1..MaxChunkSize,
            overlap : 0..(MaxChunkSize - 1)] : x.overlap < x.chunk_size}

InitChunk ==
    /\ memory_system = "EnhancedMemorySystem"
    /\ memory_enabled = TRUE
    /\ session_memory = <<>>
    /\ memory_db = EmptyDb
    /\ context_manager = EmptyCm
    /\ embedding_manager = [embeddings_available |-> FALSE, model_loaded |-> FALSE]
    /\ clock = 1
    /\ \E x \in ChunkArgs : last = [NoCall EXCEPT !.op = "arguments", !.args = x]
    /\ save_log = <<>>
    /\ round_trip = NoRoundTrip
    /\ threads = NoThreads
    /\ connections = <<>>

ChunkText ==
    /\ last.op = "arguments"
    /\ last' = [last EXCEPT !.op = "chunk_text",
                            !.ret = chunk_text(last.args.text, last.args.chunk_size,
                                               last.args.overlap)]
    /\ UNCHANGED <<memory_system, memory_enabled, session_memory, memory_db, context_manager,
                   embedding_manager, clock, save_log, round_trip,
                   threads, connections>>

NextChunk == ChunkText

SpecChunk == InitChunk /\ [][NextChunk]_vars

\* The first chunk followed by every later chunk without its leading
\* overlap characters.
RECURSIVE Rejoined(_, _)
Rejoined(chunks, overlap) ==
    IF chunks = <<>> THEN <<>>
    ELSE IF Len(chunks) = 1 THEN chunks[1]
    ELSE Rejoined(SubSeq(chunks, 1, Len(chunks) - 1), overlap)
             \o Drop(chunks[Len(chunks)], overlap)

\* C6: for 0 <= overlap < chunk_size, no chunk of chunk_text is longer than
\* chunk_size, the first chunk followed by the later chunks without their
\* leading overlap characters is the text, and a text no longer than
\* chunk_size yields the one chunk that is the text.
C6_ChunksRebuildText ==
    last.op = "chunk_text" =>
        LET text == last.args.text
            chunk_size == last.args.chunk_size
            chunks == last.ret
        IN  /\ \A k \in 1..Len(chunks) : Len(chunks[k]) <= chunk_size
            /\ Rejoined(chunks, last.args.overlap) = text
            /\ Len(text) <= chunk_size => chunks = <<text>>

\* A text has been cut into at least three chunks that overlap.
C6_Witness ==
    /\ last.op = "chunk_text"
    /\ last.args.overlap > 0
    /\ Len(last.ret) >= 3
    /\ Len(last.ret[Len(last.ret)]) < last.args.chunk_size
(***************************************************************************)
(* SpecDb: the Storage Engine on its own.  Entries of importance 0.9 and   *)
(* 0.5 are added to two sessions and deleted one by one, and pages of a    *)
(* session's entries are read.                                             *)
(***************************************************************************)
DbSessions == {session_id, <<"o">>}
DbEntries == {EntryA, EntryAb}
DbLimits == {1, 2, DefaultLimit}
DbOffsets == {0, 1}

DbCall(op, args, ret) ==
    last' = [op |-> op, args |-> args, db_fail |-> 0, cm_fail |-> 0, ret |-> ret,
             raised |-> FALSE, db_raised |-> FALSE]

AddMemoryEntry(sid, e) ==
    LET r == add_memory_entry(memory_db, sid, e.content, e.content_type, e.importance,
                              e.tags, e.metadata, clock)
    IN  /\ memory_db' = r.db
        /\ clock' = clock + 1
        /\ DbCall("add_memory_entry", [session_id |-> sid, entry |-> e], r.ret)
        /\ UNCHANGED <<memory_system, memory_enabled, session_memory, context_manager,
                       embedding_manager, save_log, round_trip,
                   threads, connections>>

DeleteMemoryEntry(entry_id) ==
    LET r == delete_memory_entry(memory_db, entry_id)
    IN  /\ memory_db' = r.db
        /\ DbCall("delete_memory_entry", entry_id, r.ret)
        /\ UNCHANGED <<memory_system, memory_enabled, session_memory, context_manager,
                       embedding_manager, clock, save_log, round_trip,
                   threads, connections>>

GetMemoryEntries(sid, limit, offset) ==
    /\ DbCall("get_memory_entries",
              [session_id |-> sid, limit |-> limit, offset |-> offset],
              get_memory_entries(memory_db, sid, limit, offset))
    /\ UNCHANGED <<memory_system, memory_enabled, session_memory, memory_db, context_manager,
                   embedding_manager, clock, save_log, round_trip,
                   threads, connections>>

NextDb ==
    \/ \E sid \in DbSessions, e \in DbEntries :
          RoomFor(1, MaxDbEntries) /\ AddMemoryEntry(sid, e)
    \/ \E entry_id \in 1..MaxDbEntries : DeleteMemoryEntry(entry_id)
    \/ \E sid \in DbSessions, limit \in DbLimits, offset \in DbOffsets :
          GetMemoryEntries(sid, limit, offset)

SpecDb == Init /\ [][NextDb]_vars

\* C7: get_memory_entries returns entries of the session, each before the
\* entries of lower importance and, among those of its importance, before
\* the ones created earlier; the page starts offset entries into that order
\* and holds limit entries or what is left.
C7_RankedByImportanceThenRecency ==
    last.op = "get_memory_entries" =>
        LET ret == last.ret
            mine == EntriesOf(last.args.session_id)
            left == Cardinality(mine) - last.args.offset
            Ahead(r) == {x \in mine : \/ x.importance > r.importance
                                      \/ /\ x.importance = r.importance
                                         /\ x.created_at > r.created_at}
        IN  /\ Len(ret) = (IF left < 0 THEN 0
                           ELSE IF left < last.args.limit THEN left
                           ELSE last.args.limit)
            /\ \A i \in 1..Len(ret) :
                  /\ \E r \in mine : r.id = ret[i].id /\ r.content = ret[i].content
                  /\ Cardinality(Ahead(ret[i])) = last.args.offset + i - 1

\* Entries of importance 0.9, 0.5 and 0.9 were added to a session in that
\* order and come back as third, first, second.
C7_Witness ==
    /\ last.op = "get_memory_entries"
    /\ Len(last.ret) = 3
    /\ last.ret[1].id = 3 /\ last.ret[1].importance = 9
    /\ last.ret[2].id = 1 /\ last.ret[2].importance = 9
    /\ last.ret[3].id = 2 /\ last.ret[3].importance = 5

(***************************************************************************)
(* SpecBoot: the module-level construction of memory_system.  One of the   *)
(* construction steps (MemoryDatabase(), ContextManager(), create_session) *)
(* raises or none does; the calls that follow are made on the variant      *)
(* memory_system was bound to.                                             *)
(***************************************************************************)
Enhanced == "EnhancedMemorySystem"
Fallback == "FallbackMemorySystem"
Unbound == "unbound"

ConstructionFailures == {"none", "MemoryDatabase", "ContextManager", "create_session"}

\* A variant: the module without its except clause.
variant_after_unguarded(raised) == Enhanced

\* try: memory_system = EnhancedMemorySystem()
\* except Exception: memory_system = FallbackMemorySystem()
variant_after(raised) == IF raised THEN Fallback ELSE Enhanced

\* What the methods of FallbackMemorySystem return.
fallback_returns(op) ==
    CASE op = "add_to_session_memory" -> -1
      [] op \in {"search_session_memory", "get_available_sessions"} -> <<>>
      [] op = "get_context" -> <<>>
      [] op \in {"save_session_memory", "load_session_memory"} -> FALSE
      [] op \in {"get_memory_stats", "get_session_summary"} -> <<>>
      [] op = "get_memory_status" -> [enabled |-> FALSE]
      [] OTHER -> NULL

FallbackMethods ==
    {"add_to_session_memory", "search_session_memory", "get_context",
     "get_session_summary", "clear_session_memory", "clear_persistent_memory",
     "clear_all_memory", "save_session_memory", "load_session_memory",
     "get_available_sessions", "get_memory_stats", "get_memory_status",
     "set_memory_enabled"}

\* The positional arguments a Fallback method is called with and ignores.
BootArgs == {<<>>, <<"a">>}

InitBoot ==
    /\ memory_system = Unbound
    /\ memory_enabled = FALSE
    /\ session_memory = <<>>
    /\ memory_db = EmptyDb
    /\ context_manager = EmptyCm
    /\ embedding_manager = [embeddings_available |-> FALSE, model_loaded |-> FALSE]
    /\ clock = 0
    /\ last = NoCall
    /\ save_log = <<>>
    /\ round_trip = NoRoundTrip
    /\ threads = NoThreads
    /\ connections = <<>>

\* EnhancedMemorySystem() at import time; failure names the step that raises.
Construct(failure, embeddings_available) ==
    LET raised == failure # "none"
    IN  /\ memory_system = Unbound
        /\ memory_system' = variant_after(raised)
        /\ memory_enabled' = ~raised
        /\ memory_db' = IF raised THEN EmptyDb
                        ELSE create_session(EmptyDb, session_id, project_path, NoMeta, 1).db
        /\ embedding_manager' = [embeddings_available |->
                                    embeddings_available /\ failure # "MemoryDatabase",
                                 model_loaded |-> FALSE]
        /\ clock' = 2
        /\ last' = [NoCall EXCEPT !.op = "EnhancedMemorySystem", !.args = failure,
                                  !.raised = raised]
        /\ UNCHANGED <<session_memory, context_manager, save_log, round_trip,
                   threads, connections>>

FallbackCall(op, args) ==
    /\ memory_system = Fallback
    /\ last' = [NoCall EXCEPT !.op = op, !.args = args, !.ret = fallback_returns(op)]
    /\ UNCHANGED <<memory_system, memory_enabled, session_memory, memory_db,
                   context_manager, embedding_manager, clock, save_log, round_trip,
                   threads, connections>>

Ready == memory_system = Enhanced

NextBoot ==
    \/ \E failure \in ConstructionFailures, embeddings_available \in BOOLEAN :
          Construct(failure, embeddings_available)
    \/ \E op \in FallbackMethods, args \in BootArgs : FallbackCall(op, args)
    \/ \E e \in LifecycleEntries :
          Ready /\ RoomFor(1, MaxBootEntries) /\ AddToSessionMemory(e, Quiet)
    \/ \E q \in Queries : Ready /\ SearchSessionMemory(q, NULL, 10, Quiet)
    \/ Ready /\ GetContext(20, <<>>, Quiet)
    \/ Ready /\ GetMemoryStats(Quiet)
    \/ \E name \in FaultNames : Ready /\ LoadSessionMemory(name, Quiet)

SpecBoot == InitBoot /\ [][NextBoot]_vars

\* C11: memory_system is the Fallback variant exactly when the construction
\* of EnhancedMemorySystem raised, and the READY EnhancedMemorySystem
\* otherwise.  On the Fallback variant nothing is ever stored and every call
\* returns without raising: add_to_session_memory -1, search_session_memory
\* the empty list, get_context the empty string, save_session_memory and
\* load_session_memory False, get_memory_stats the empty dict.
C11_FallbackOnFailedConstruction ==
    /\ last.op = "EnhancedMemorySystem" =>
          memory_system = (IF last.raised THEN Fallback ELSE Enhanced)
    /\ memory_system # Unbound =>
          IF memory_system = Fallback
          THEN /\ ~memory_enabled
               /\ session_memory = <<>>
               /\ memory_db = EmptyDb
               /\ context_manager = EmptyCm
               /\ last.op # "EnhancedMemorySystem" =>
                     /\ ~last.raised
                     /\ last.op = "add_to_session_memory" => last.ret = -1
                     /\ last.op = "search_session_memory" => last.ret = <<>>
                     /\ last.op = "get_context" => last.ret = <<>>
                     /\ last.op = "save_session_memory" => last.ret = FALSE
                     /\ last.op = "load_session_memory" => last.ret = FALSE
                     /\ last.op = "get_memory_stats" => last.ret = <<>>
          ELSE /\ memory_enabled
               /\ session_exists(memory_db, session_id)

\* On the Fallback variant an add called with arguments has returned -1.
C11_Witness ==
    /\ memory_system = Fallback
    /\ last.op = "add_to_session_memory"
    /\ last.args # <<>>
    /\ last.ret = -1

\* C12: with memory enabled and the Storage Engine healthy, an
\* add_to_session_memory during which ContextManager.add_content raises
\* returns the Storage Engine's entry id without raising, and the entry is
\* at the head of the ephemeral buffer and in the persistent store.
C12_AddSurvivesIndexFailure ==
    (memory_enabled /\ last.op = "add_to_session_memory"
        /\ last.cm_fail = 1 /\ last.db_fail = 0) =>
        IF last.raised THEN FALSE
        ELSE /\ last.ret >= 0
             /\ last.ret = memory_db.entry_seq
             /\ session_memory # <<>>
             /\ session_memory[1].entry_id = last.ret
             /\ session_memory[1].content = last.args.content
             /\ \E r \in EntriesOf(session_id) :
                   r.id = last.ret /\ r.content = last.args.content

\* An add whose indexing raised has returned its entry id; the Context
\* Manager holds no chunk of the content.
C12_Witness ==
    /\ memory_enabled
    /\ last.op = "add_to_session_memory"
    /\ last.cm_fail = 1
    /\ last.db_fail = 0
    /\ ~last.raised
    /\ last.ret >= 1
    /\ \A c \in context_manager.context_chunks : c.content # last.args.content

(***************************************************************************)
(* SpecSession: sessions and their entries.  Sessions are created (again), *)
(* entries are added to known and unknown sessions and deleted one by one  *)
(* or by session, and the current session is saved and loaded.             *)
(***************************************************************************)
ProjectPaths == {project_path, <<"p">>}
SessionMetas == {NoMeta, MetaKA}

CreateSession(sid, path, metadata) ==
    LET r == create_session(memory_db, sid, path, metadata, clock)
    IN  /\ memory_db' = r.db
        /\ clock' = clock + 1
        /\ DbCall("create_session",
                  [session_id |-> sid, project_path |-> path, metadata |-> metadata],
                  r.ret)
        /\ UNCHANGED <<memory_system, memory_enabled, session_memory, context_manager,
                       embedding_manager, save_log, round_trip,
                   threads, connections>>

DeleteSessionMemory(sid) ==
    LET r == delete_session_memory(memory_db, sid)
    IN  /\ memory_db' = r.db
        /\ DbCall("delete_session_memory", sid, r.ret)
        /\ UNCHANGED <<memory_system, memory_enabled, session_memory, context_manager,
                       embedding_manager, clock, save_log, round_trip,
                   threads, connections>>

InTime == clock < MaxSessionClock

NextSession ==
    \/ \E sid \in DbSessions, path \in ProjectPaths, metadata \in SessionMetas :
          InTime /\ CreateSession(sid, path, metadata)
    \/ \E sid \in DbSessions, e \in DbEntries :
          InTime /\ RoomFor(1, MaxSessionEntries) /\ AddMemoryEntry(sid, e)
    \/ \E entry_id \in 1..MaxSessionEntries : DeleteMemoryEntry(entry_id)
    \/ \E sid \in DbSessions : DeleteSessionMemory(sid)
    \/ \E name \in FaultNames :
          InTime /\ RoomToSave(MaxSessionEntries) /\ SaveSessionMemory(name, Quiet)
    \/ \E name \in FaultNames :
          /\ InTime
          /\ RoomToLoad(name, MaxSessionEntries)
          /\ LoadSessionMemory(name, Quiet)

SpecSession == InitPlain /\ [][NextSession]_vars

\* C13: every row of memory_entries references a session_id that has a row
\* in sessions, and after add_memory_entry the session it named has a row
\* that is not younger than the entry.
C13_SessionBeforeEntry ==
    /\ \A r \in memory_db.memory_entries :
          \E s \in memory_db.sessions : s.session_id = r.session_id
    /\ last.op = "add_memory_entry" =>
          \E s \in memory_db.sessions :
             /\ s.session_id = last.args.session_id
             /\ \A r \in memory_db.memory_entries :
                   r.id = last.ret => s.created_at <= r.created_at

\* An entry was added to a session that nobody created: the session has a
\* row with the automatic project path and the entry is stored.
C13_Witness ==
    /\ last.op = "add_memory_entry"
    /\ last.args.session_id # session_id
    /\ \E s \in memory_db.sessions :
          /\ s.session_id = last.args.session_id
          /\ s.project_path = <<"c", "w", "d">>
          /\ s.created_at > 1
    /\ \E r \in memory_db.memory_entries :
          r.id = last.ret /\ r.session_id = last.args.session_id

\* C14: create_session on a new id returns True and inserts exactly the row
\* of that id; on an id that has a row it returns False without raising and
\* leaves the sessions table (project_path, created_at, metadata of the row)
\* and every entry as they were.
C14_CreateSessionKeepsExisting ==
    [][(last'.op = "create_session" /\ clock' = clock + 1) =>
         IF \E s \in memory_db.sessions : s.session_id = last'.args.session_id
         THEN /\ last'.ret = FALSE
              /\ ~last'.raised
              /\ memory_db' = memory_db
         ELSE /\ last'.ret = TRUE
              /\ ~last'.raised
              /\ memory_db'.sessions = memory_db.sessions \cup
                    {[session_id |-> last'.args.session_id,
                      project_path |-> last'.args.project_path,
                      created_at |-> clock, updated_at |-> clock,
                      metadata |-> json_dumps_dict(last'.args.metadata)]}
              /\ memory_db'.memory_entries = memory_db.memory_entries
              /\ memory_db'.memory_chunks = memory_db.memory_chunks]_vars

\* create_session was refused for a session that has entries and whose row
\* carries another project path and other metadata than the ones offered.
C14_Witness ==
    /\ last.op = "create_session"
    /\ last.ret = FALSE
    /\ \E s \in memory_db.sessions :
          /\ s.session_id = last.args.session_id
          /\ s.project_path # last.args.project_path
          /\ s.metadata # json_dumps_dict(last.args.metadata)
          /\ s.created_at < clock - 1
    /\ \E r \in memory_db.memory_entries : r.session_id = last.args.session_id

(***************************************************************************)
(* SpecSim: the Context Manager's index and its two searches.  Contents    *)
(* are indexed with and without an embedding (the encoder may fail on a    *)
(* text, the model may fail to load) and searched by similarity.           *)
(***************************************************************************)
SimEntries == {EntryA, EntryAb, EntryB}
SimQueries == {<<"A">>, <<"_">>}
TopKs == {1, DefaultTopK}
\* min_similarity, as a fraction: the default 0.3 and a stricter 0.8
Thresholds == {[num |-> 3, den |-> 10], [num |-> 8, den |-> 10]}
Backends == [db_fail : {0}, cm_fail : {0}, load_ok : {TRUE}, encode_ok : BOOLEAN,
             tie : {"rowid", "reverse"}]
Encoders == {env \in Backends : env.tie = "rowid"}

IndexEntry(sid, e, env) ==
    LET r == add_content(context_manager, embedding_manager, sid, e.content,
                         e.content_type, e.importance, e.tags, e.metadata, clock,
                         env.load_ok, env.encode_ok, 0)
    IN  /\ context_manager' = r.cm
        /\ embedding_manager' = r.em
        /\ clock' = r.clock
        /\ last' = [op |-> "add_content",
                    args |-> [session_id |-> sid, content |-> e.content],
                    db_fail |-> 0, cm_fail |-> 0, ret |-> r.ret,
                    raised |-> r.raised, db_raised |-> FALSE]
        /\ UNCHANGED <<memory_system, memory_enabled, session_memory, memory_db,
                       save_log, round_trip,
                   threads, connections>>

SearchBySimilarity(sid, query, top_k, min, env) ==
    LET r == search_by_similarity(context_manager, embedding_manager, sid, query,
                                  top_k, min.num, min.den, env.load_ok,
                                  env.encode_ok, env.tie)
        q == embed_text(embedding_manager, query, env.load_ok, env.encode_ok)
    IN  /\ embedding_manager' = r.em
        /\ last' = [op |-> "search_by_similarity",
                    args |-> [session_id |-> sid, query |-> query, top_k |-> top_k,
                              min_similarity |-> min, query_embedding |-> q.ret,
                              tie |-> env.tie],
                    db_fail |-> 0, cm_fail |-> 0, ret |-> r.ret,
                    raised |-> FALSE, db_raised |-> FALSE]
        /\ UNCHANGED <<memory_system, memory_enabled, session_memory, memory_db,
                       context_manager, clock, save_log, round_trip,
                   threads, connections>>

NextSim ==
    \/ \E sid \in CmSessions, e \in SimEntries, env \in Encoders :
          /\ clock < MaxSimClock
          /\ context_manager.chunk_seq < MaxSimChunks
          /\ IndexEntry(sid, e, env)
    \/ \E query \in SimQueries, top_k \in TopKs, min \in Thresholds, env \in Backends :
          SearchBySimilarity(session_id, query, top_k, min, env)

SpecSim == Init /\ [][NextSim]_vars

\* The similarity of a stored row to the query embedding of the last search.
SimilarityOf(r) ==
    compute_similarity(embedding_manager, last.args.query_embedding, r.embedding)

\* The rows the last search may return: of its session, with a stored
\* embedding, at least min_similarity similar to the query.
Qualifying ==
    {r \in context_manager.context_chunks :
        /\ r.session_id = last.args.session_id
        /\ r.embedding # <<>>
        /\ SimAtLeast(SimilarityOf(r), last.args.min_similarity.num,
                      last.args.min_similarity.den)}

RowOf(chunk) == CHOOSE r \in context_manager.context_chunks : r.id = chunk.id

\* C15: a search whose query was embedded returns at most top_k chunks, each
\* a qualifying row of the session, no row twice, in descending order of
\* similarity, and no qualifying row left out is strictly more similar to
\* the query than a returned one.
C15_SimilaritySearchRanks ==
    (last.op = "search_by_similarity" /\ last.args.query_embedding # <<>>) =>
        /\ ~last.raised
        /\ Len(last.ret) <= last.args.top_k
        /\ \A i \in 1..Len(last.ret) :
              \E r \in Qualifying : last.ret[i] = to_chunk(r)
        /\ \A i, j \in 1..Len(last.ret) :
              i < j => /\ last.ret[i].id # last.ret[j].id
                       /\ ~SimGreater(SimilarityOf(RowOf(last.ret[j])),
                                      SimilarityOf(RowOf(last.ret[i])))
        /\ \A r \in Qualifying :
              (\A i \in 1..Len(last.ret) : last.ret[i].id # r.id) =>
                 \A i \in 1..Len(last.ret) :
                    ~SimGreater(SimilarityOf(r), SimilarityOf(RowOf(last.ret[i])))

\* A search with an embedded query returned two chunks, the second strictly
\* less similar and indexed before the first, while the session holds a
\* chunk without an embedding and another session holds a chunk.
C15_Witness ==
    /\ last.op = "search_by_similarity"
    /\ last.args.query_embedding # <<>>
    /\ Len(last.ret) = 2
    /\ last.ret[2].id < last.ret[1].id
    /\ SimGreater(SimilarityOf(RowOf(last.ret[1])), SimilarityOf(RowOf(last.ret[2])))
    /\ \E r \in context_manager.context_chunks :
          r.session_id = last.args.session_id /\ r.embedding = <<>>

\* A query that holds none of the wildcards of LIKE.
Literal(query) == \A i \in 1..Len(query) : query[i] \notin {"%", "_"}

\* What every keyword fallback gives, whatever the chunks matched on: no
\* exception, the result of _keyword_search, at most top_k chunks, each a row
\* of the session, no row twice, in descending order of importance.
FallbackShape ==
    /\ ~last.raised
    /\ last.ret = keyword_search(context_manager, last.args.session_id,
                                 last.args.query, last.args.top_k, last.args.tie)
    /\ Len(last.ret) <= last.args.top_k
    /\ \A i \in 1..Len(last.ret) :
          \E r \in context_manager.context_chunks :
             r.session_id = last.args.session_id /\ last.ret[i] = to_chunk(r)
    /\ \A i, j \in 1..Len(last.ret) :
          i < j => /\ last.ret[i].id # last.ret[j].id
                   /\ last.ret[i].importance >= last.ret[j].importance

FindQueries == {<<"A">>, <<"k">>, <<"_">>}
FindTypes == {NULL, "code"}
FindLimits == {1, DefaultSearchLimit}

SearchMemory(sid, query, content_type, limit) ==
    /\ DbCall("search_memory",
              [session_id |-> sid, query |-> query, content_type |-> content_type,
               limit |-> limit],
              search_memory(memory_db, sid, query, content_type, limit))
    /\ UNCHANGED <<memory_system, memory_enabled, session_memory, memory_db, context_manager,
                   embedding_manager, clock, save_log, round_trip,
                   threads, connections>>

NextFind ==
    \/ \E sid \in DbSessions, e \in Entries :
          RoomFor(1, MaxFindEntries) /\ AddMemoryEntry(sid, e)
    \/ \E sid \in DbSessions, query \in FindQueries, content_type \in FindTypes,
          limit \in FindLimits :
          SearchMemory(sid, query, content_type, limit)

SpecFind == Init /\ [][NextFind]_vars

\* The entries the specification has the last search_memory return: of the
\* session, of the content type when one is given, the query a
\* case-insensitive substring of the content or of the metadata.
Containing ==
    {r \in memory_db.memory_entries :
        /\ r.session_id = last.args.session_id
        /\ (last.args.content_type # NULL => r.content_type = last.args.content_type)
        /\ (Contains(Lower(r.content), Lower(last.args.query))
              \/ Contains(Lower(r.metadata), Lower(last.args.query)))}

\* C17: search_memory returns up to limit of exactly the entries of the
\* session that contain the query (in content or metadata, whatever the
\* case, and of the content type when given), the most important first and
\* the newest first among equals; an entry that does not contain the query
\* is never returned, for every query string.
C17_SearchReturnsContaining ==
    last.op = "search_memory" =>
        /\ \A i \in 1..Len(last.ret) :
              \E r \in Containing : last.ret[i] = row_to_dict(r)
        /\ Len(last.ret) = IF Cardinality(Containing) < last.args.limit
                           THEN Cardinality(Containing) ELSE last.args.limit
        /\ \A i, j \in 1..Len(last.ret) :
              i < j => /\ last.ret[i].id # last.ret[j].id
                       /\ ~RankedBefore(last.ret[j], last.ret[i])
        /\ \A r \in Containing :
              (\A i \in 1..Len(last.ret) : last.ret[i].id # r.id) =>
                 \A i \in 1..Len(last.ret) : ~RankedBefore(r, last.ret[i])

(***************************************************************************)
(* SpecRender: the Context Manager renders the chunks of a session.        *)
(***************************************************************************)
GetContextForSession(sid, max_chunks, content_types) ==
    /\ DbCall("get_context_for_session",
              [session_id |-> sid, max_chunks |-> max_chunks,
               content_types |-> content_types],
              get_context_for_session(context_manager, sid, max_chunks, content_types))
    /\ UNCHANGED <<memory_system, memory_enabled, session_memory, memory_db, context_manager,
                   embedding_manager, clock, save_log, round_trip,
                   threads, connections>>

NextRender ==
    \/ \E sid \in CmSessions, e \in SimEntries :
          /\ clock < MaxRenderClock
          /\ context_manager.chunk_seq < MaxRenderChunks
          /\ IndexEntry(sid, e, Quiet)
    \/ \E sid \in CmSessions : DeleteSessionContent(sid)
    \/ \E sid \in CmSessions, max_chunks \in ContextLimits, content_types \in TypeLists :
          GetContextForSession(sid, max_chunks, content_types)

SpecRender == InitPlain /\ [][NextRender]_vars

\* The chunks the last get_context_for_session may render: of its session
\* and, when content types are given, of a listed one.
Renderable ==
    {r \in context_manager.context_chunks :
        /\ r.session_id = last.args.session_id
        /\ (last.args.content_types # <<>> =>
              \E i \in 1..Len(last.args.content_types) :
                 last.args.content_types[i] = r.content_type)}

Pages == UNION {[1..n -> Renderable] : n \in 0..Cardinality(Renderable)}

\* C18: the text get_context_for_session returns is the parts of some
\* chunks joined by a blank line: at most max_chunks of them, each a chunk of
\* the session (of a listed content type when types are given), none twice,
\* the more important first and the newer first among equals, and no chunk
\* left out outranks a rendered one.
C18_ContextRendersTopChunks ==
    last.op = "get_context_for_session" =>
        \E page \in Pages :
            /\ Len(page) <= last.args.max_chunks
            /\ \A i, j \in 1..Len(page) :
                  i < j => /\ page[i].id # page[j].id
                           /\ \/ page[i].importance > page[j].importance
                              \/ /\ page[i].importance = page[j].importance
                                 /\ page[i].created_at >= page[j].created_at
            /\ \A r \in Renderable :
                  (\A i \in 1..Len(page) : page[i].id # r.id) =>
                     \A i \in 1..Len(page) :
                        \/ page[i].importance > r.importance
                        \/ /\ page[i].importance = r.importance
                           /\ page[i].created_at >= r.created_at
            /\ last.ret = JoinWith([i \in 1..Len(page) |-> chunk_part(page[i])],
                                   <<"\n", "\n">>)

\* Two text chunks of equal importance were rendered, the newer first, with
\* a blank line between them, while the session holds a third chunk.
C18_Witness ==
    /\ last.op = "get_context_for_session"
    /\ Cardinality(Renderable) = 3
    /\ last.args.content_types = <<>>
    /\ \E a, b \in Renderable :
          /\ a.importance = b.importance
          /\ a.created_at > b.created_at
          /\ Contains(last.ret, chunk_part(a) \o <<"\n", "\n">> \o chunk_part(b))

(***************************************************************************)
(* SpecClear: the three clear operations on healthy stores that another    *)
(* session (<<"o">>) writes to as well.  last.args keeps the buffer and    *)
(* the two stores as they were when the clear operation was called.        *)
(***************************************************************************)
OtherSession == <<"o">>

Stores ==
    [session_memory |-> session_memory, memory_db |-> memory_db,
     context_manager |-> context_manager]

Clear(op, r) ==
    /\ Call(op, Stores, Quiet, r)
    /\ round_trip' = NoRoundTrip
    /\ UNCHANGED <<save_log, threads, connections>>

NextClear ==
    \/ \E e \in LifecycleEntries :
          /\ clock < MaxClearClock
          /\ RoomFor(1, MaxClearEntries)
          /\ context_manager.chunk_seq < MaxClearChunks
          /\ AddToSessionMemory(e, Quiet)
    \/ \E e \in LifecycleEntries :
          /\ clock < MaxClearClock
          /\ RoomFor(1, MaxClearEntries)
          /\ AddMemoryEntry(OtherSession, e)
    \/ \E e \in LifecycleEntries :
          /\ clock < MaxClearClock
          /\ context_manager.chunk_seq < MaxClearChunks
          /\ IndexEntry(OtherSession, e, Quiet)
    \/ Clear("clear_session_memory", clear_session_memory(World(Quiet)))
    \/ Clear("clear_persistent_memory", clear_persistent_memory(World(Quiet)))
    \/ Clear("clear_all_memory", clear_all_memory(World(Quiet)))

SpecClear == InitPlain /\ [][NextClear]_vars

BufferEmptied == session_memory = <<>>
BufferKept == session_memory = last.args.session_memory
StoresKept ==
    /\ memory_db = last.args.memory_db
    /\ context_manager = last.args.context_manager

\* Of the durable stores exactly the entries and the context chunks of the
\* current session are gone.
SessionRemoved ==
    /\ memory_db.memory_entries =
          {r \in last.args.memory_db.memory_entries : r.session_id # session_id}
    /\ memory_db.sessions = last.args.memory_db.sessions
    /\ context_manager.context_chunks =
          {c \in last.args.context_manager.context_chunks : c.session_id # session_id}

\* C19: clear_session_memory empties the buffer and leaves both stores as
\* they were; clear_persistent_memory removes from the stores every entry
\* and every context chunk of the current session and nothing else, and
\* leaves the buffer as it was; clear_all_memory does both.  None raises.
C19_ClearScopes ==
    /\ last.op = "clear_session_memory" =>
          ~last.raised /\ BufferEmptied /\ StoresKept
    /\ last.op = "clear_persistent_memory" =>
          ~last.raised /\ BufferKept /\ SessionRemoved
    /\ last.op = "clear_all_memory" =>
          ~last.raised /\ BufferEmptied /\ SessionRemoved

\* clear_persistent_memory was called while the current session and the
\* other one each had an entry and a context chunk and the buffer was not
\* empty.
C19_Witness ==
    /\ last.op = "clear_persistent_memory"
    /\ session_memory # <<>>
    /\ \E r \in last.args.memory_db.memory_entries : r.session_id = session_id
    /\ \E c \in last.args.context_manager.context_chunks : c.session_id = session_id
    /\ \E r \in memory_db.memory_entries : r.session_id = OtherSession
    /\ \E c \in context_manager.context_chunks : c.session_id = OtherSession

(***************************************************************************)
(* SpecEmbed: the embedding provider of a process where the libraries are  *)
(* installed.  The model load and the encoder succeed or fail as the       *)
(* environment decides; texts are embedded directly, while indexing and    *)
(* while searching.                                                        *)
(***************************************************************************)
Providers == {env \in Backends \cup Healthy : env.tie = "rowid"}
EmbedTexts == {<<"a">>, <<"b">>}

InitInstalled == Init /\ embedding_manager.embeddings_available

EmbedText(text, env) ==
    LET r == embed_text(embedding_manager, text, env.load_ok, env.encode_ok)
    IN  /\ embedding_manager' = r.em
        /\ last' = [op |-> "embed_text",
                    args |-> [text |-> text, load_ok |-> env.load_ok,
                              encode_ok |-> env.encode_ok],
                    db_fail |-> 0, cm_fail |-> 0, ret |-> r.ret,
                    raised |-> FALSE, db_raised |-> FALSE]
        /\ UNCHANGED <<memory_system, memory_enabled, session_memory, memory_db,
                       context_manager, clock, save_log, round_trip,
                   threads, connections>>

NextEmbed ==
    \/ \E text \in EmbedTexts, env \in Providers : EmbedText(text, env)
    \/ \E e \in LifecycleEntries, env \in Providers :
          /\ clock < MaxEmbedClock
          /\ context_manager.chunk_seq < MaxEmbedChunks
          /\ IndexEntry(session_id, e, env)
    \/ \E query \in EmbedTexts, env \in Providers :
          SearchBySimilarity(session_id, query, DefaultTopK, [num |-> 3, den |-> 10], env)

SpecEmbed == InitInstalled /\ [][NextEmbed]_vars

\* C20: an embed_text that finds the model unloaded and fails to load it
\* leaves the provider disabled; and from a disabled provider every step
\* leaves the provider as it is (still disabled, no model loaded, whatever
\* a load would give now), every embed_text returns null without raising
\* and nothing that is indexed gets an embedding.
C20_DisabledForGood ==
    [][/\ (/\ last'.op = "embed_text"
           /\ embedding_manager.embeddings_available
           /\ ~embedding_manager.model_loaded
           /\ ~last'.args.load_ok) =>
             /\ ~embedding_manager'.embeddings_available
             /\ last'.ret = <<>>
       /\ ~embedding_manager.embeddings_available =>
             /\ embedding_manager' = embedding_manager
             /\ ~embedding_manager'.model_loaded
             /\ ~last'.raised
             /\ last'.op = "embed_text" => last'.ret = <<>>
             /\ \A c \in context_manager'.context_chunks \ context_manager.context_chunks :
                   c.embedding = <<>>]_vars

\* The provider is disabled, which in this process means that a load has
\* failed, and an embed_text made while a load and the encoder would both
\* succeed has returned null.
C20_Witness ==
    /\ ~embedding_manager.embeddings_available
    /\ ~embedding_manager.model_loaded
    /\ last.op = "embed_text"
    /\ last.args.load_ok
    /\ last.args.encode_ok
    /\ last.ret = <<>>

(***************************************************************************)
(* SpecNames: snapshots are saved under names and the names listed.        *)
(***************************************************************************)
GetAvailableSessions(env) ==
    /\ Call("get_available_sessions", <<>>, env, get_available_sessions(World(env)))
    /\ UNCHANGED <<save_log, round_trip,
                   threads, connections>>

NextNames ==
    \/ \E e \in LifecycleEntries :
          RoomFor(1, MaxNameEntries) /\ AddToSessionMemory(e, Quiet)
    \/ \E name \in SessionNames :
          /\ Cardinality(memory_db.sessions) < MaxNameSessions
          /\ RoomFor(Cardinality(EntriesOf(session_id)), MaxNameEntries)
          /\ SaveSessionMemory(name, Quiet)
    \/ GetAvailableSessions(Quiet)

SpecNames == InitPlain /\ [][NextNames]_vars

SavedNames == {save_log[i].name : i \in 1..Len(save_log)}

\* C21: a successful save_session_memory(name) has created the session
\* saved_<name>_<timestamp>, and get_available_sessions lists exactly the
\* names that were passed to the successful saves, each once.
C21_NamesRecovered ==
    /\ (last.op = "save_session_memory" /\ last.ret = TRUE) =>
          \E s \in memory_db.sessions, t \in 1..clock :
             s.session_id = <<"s","a","v","e","d","_">> \o last.args \o <<"_">> \o strftime(t)
    /\ last.op = "get_available_sessions" =>
          /\ {last.ret[i] : i \in 1..Len(last.ret)} = SavedNames
          /\ \A i, j \in 1..Len(last.ret) : i # j => last.ret[i] # last.ret[j]

(***************************************************************************)
(* SpecTx: add_memory_entry on a connection whose statements may fail.     *)
(* last.args keeps the store as it was when the call was made.             *)
(***************************************************************************)
EntryLong == [content |-> LongText, content_type |-> "text", tags |-> NoTags,
              importance |-> 10, metadata |-> NoMeta]
TxEntries == {EntryA, EntryLong}

AddMemoryEntryFailing(sid, e, fail) ==
    LET r == add_memory_entry_failing(memory_db, sid, e.content, e.content_type,
                                      e.importance, e.tags, e.metadata, clock, fail)
    IN  /\ memory_db' = r.db
        /\ clock' = clock + 1
        /\ last' = [op |-> "add_memory_entry",
                    args |-> [session_id |-> sid, entry |-> e, fail |-> fail,
                              memory_db |-> memory_db],
                    db_fail |-> fail, cm_fail |-> 0, ret |-> r.ret,
                    raised |-> r.raised, db_raised |-> r.raised]
        /\ UNCHANGED <<memory_system, memory_enabled, session_memory, context_manager,
                       embedding_manager, save_log, round_trip,
                   threads, connections>>

NextTx ==
    \/ \E sid \in DbSessions, e \in TxEntries, fail \in 0..MaxTxFail :
          /\ clock < MaxTxClock
          /\ RoomFor(1, MaxTxEntries)
          /\ AddMemoryEntryFailing(sid, e, fail)
    \/ \E entry_id \in 1..MaxTxEntries : DeleteMemoryEntry(entry_id)

SpecTx == Init /\ [][NextTx]_vars

\* The number of sub-chunk rows add_memory_entry writes for a content.
SubChunksOf(content) ==
    IF Len(content) > SubChunkThreshold
    THEN (Len(content) + SubChunkSize - 1) \div SubChunkSize
    ELSE 0

\* C22: an add_memory_entry whose INSERT of the entry or of a sub-chunk
\* fails raises to its caller and leaves memory_entries and memory_chunks
\* as they were at the call; one that meets no failure does not raise and
\* stores what add_memory_entry stores.
C22_AddIsTransactional ==
    last.op = "add_memory_entry" =>
        /\ last.raised <=>
              /\ last.args.fail >= 1
              /\ last.args.fail <= 1 + SubChunksOf(last.args.entry.content)
        /\ IF last.raised
           THEN /\ memory_db.memory_entries = last.args.memory_db.memory_entries
                /\ memory_db.memory_chunks = last.args.memory_db.memory_chunks
           ELSE LET e == last.args.entry
                IN  memory_db = add_memory_entry(last.args.memory_db, last.args.session_id,
                                                 e.content, e.content_type, e.importance,
                                                 e.tags, e.metadata, clock - 1).db

\* The INSERT of the third sub-chunk of a long entry raised: the call
\* raised while the store held an entry, and the session it named, unknown
\* before, has its row.
C22_Witness ==
    /\ last.op = "add_memory_entry"
    /\ last.raised
    /\ last.args.fail = 4
    /\ last.args.memory_db.memory_entries # {}
    /\ ~session_exists(last.args.memory_db, last.args.session_id)
    /\ session_exists(memory_db, last.args.session_id)

(***************************************************************************)
(* Connection per thread.  MemoryDatabase and ContextManager each keep a   *)
(* threading.local(); its attribute connection is the calling thread's     *)
(* slot.  A connection object records who created it, who ran statements   *)
(* on it and who closed it.                                                *)
(***************************************************************************)
SlotOf(th, store) ==
    IF store = "memory_db" THEN th.db_connection ELSE th.cm_connection

SetSlot(ths, t, store, conn) ==
    IF store = "memory_db" THEN [ths EXCEPT ![t].db_connection = conn]
    ELSE [ths EXCEPT ![t].cm_connection = conn]

connect(ths, conns, t, store) ==
    [threads |-> SetSlot(ths, t, store, Len(conns) + 1),
     connections |-> Append(conns, [store |-> store, created_by |-> t,
                                    used_by |-> {t}, closed_by |-> {}])]

\* A variant: the connection kept on the instance, not on self._local.
get_db_connection_on_instance(ths, conns, t, store) ==
    LET holders == {u \in Threads : SlotOf(ths[u], store) # NoConnection}
        conn == SlotOf(ths[CHOOSE u \in holders : TRUE], store)
    IN  IF holders = {} THEN connect(ths, conns, t, store)
        ELSE [threads |-> ths,
              connections |-> [conns EXCEPT ![conn].used_by = @ \cup {t}]]

\* with self._get_db_connection() as conn: ... on the store, in thread t.
get_db_connection(ths, conns, t, store) ==
    LET conn == SlotOf(ths[t], store)
    IN  IF conn = NoConnection          \* not hasattr(self._local, 'connection')
        THEN connect(ths, conns, t, store)
        ELSE [threads |-> ths,
              connections |-> [conns EXCEPT ![conn].used_by = @ \cup {t}]]

\* the connections a call obtains, one store after the other
RECURSIVE with_connections(_, _, _, _)
with_connections(ths, conns, t, stores) ==
    IF stores = <<>> THEN [threads |-> ths, connections |-> conns]
    ELSE LET c == get_db_connection(ths, conns, t, Head(stores))
         IN  with_connections(c.threads, c.connections, t, Tail(stores))

\* MemoryDatabase.close(), which is all EnhancedMemorySystem.close() does.
close(ths, conns, t) ==
    LET conn == ths[t].db_connection
    IN  IF conn = NoConnection THEN [threads |-> ths, connections |-> conns]
        ELSE [threads |-> SetSlot(ths, t, "memory_db", NoConnection),
              connections |-> [conns EXCEPT ![conn].closed_by = @ \cup {t}]]

\* The stores whose _get_db_connection() a call enters.
stores_used(op, enabled) ==
    IF op = "add_to_session_memory"
    THEN IF enabled THEN <<"memory_db", "context_manager">> ELSE <<>>
    ELSE IF op = "get_available_sessions" THEN <<"memory_db">>
    ELSE IF op = "get_context_for_session" THEN <<"context_manager">>
    ELSE <<>>

InThread(t, op) ==
    LET c == with_connections(threads, connections, t, stores_used(op, memory_enabled))
    IN  /\ Len(c.connections) <= MaxConnections
        /\ threads' = c.threads
        /\ connections' = c.connections

Caller(t, args) == [thread |-> t, args |-> args, threads |-> threads,
                    connections |-> connections]

ThreadAddToSessionMemory(t, e) ==
    /\ RoomFor(1, MaxThreadEntries)
    /\ Call("add_to_session_memory", Caller(t, e), Quiet,
            add_to_session_memory(World(Quiet), e.content, e.content_type, e.tags,
                                  e.importance, e.metadata))
    /\ InThread(t, "add_to_session_memory")
    /\ UNCHANGED <<save_log, round_trip>>

ThreadGetAvailableSessions(t) ==
    /\ Call("get_available_sessions", Caller(t, <<>>), Quiet,
            get_available_sessions(World(Quiet)))
    /\ InThread(t, "get_available_sessions")
    /\ UNCHANGED <<save_log, round_trip>>

ThreadGetContextForSession(t) ==
    /\ last' = [NoCall EXCEPT !.op = "get_context_for_session",
                              !.args = Caller(t, session_id),
                              !.ret = get_context_for_session(context_manager,
                                                              session_id, DefaultTopK,
                                                              <<>>)]
    /\ InThread(t, "get_context_for_session")
    /\ UNCHANGED <<memory_system, memory_enabled, session_memory, memory_db,
                   context_manager, embedding_manager, clock, save_log, round_trip>>

ThreadClose(t) ==
    LET c == close(threads, connections, t)
    IN  /\ threads' = c.threads
        /\ connections' = c.connections
        /\ last' = [NoCall EXCEPT !.op = "close", !.args = Caller(t, <<>>)]
        /\ UNCHANGED <<memory_system, memory_enabled, session_memory, memory_db,
                       context_manager, embedding_manager, clock, save_log,
                       round_trip>>

NextThreads ==
    \/ \E t \in Threads, e \in LifecycleEntries : ThreadAddToSessionMemory(t, e)
    \/ \E t \in Threads : ThreadGetAvailableSessions(t)
    \/ \E t \in Threads : ThreadGetContextForSession(t)
    \/ \E t \in Threads : ThreadClose(t)

SpecThreads == InitPlain /\ [][NextThreads]_vars

Open(c) == c.closed_by = {}

\* the connections as they were when the last call was made
Before(i) == last.args.connections[i]

\* C23: in every interleaving of threads calling the stores, a connection is
\* used and closed by the thread that created it only; a thread's slot
\* holds an open connection of that store which it created itself; a call
\* by a thread that has a connection creates none; and close() closes the
\* caller's Storage Engine connection and touches no other connection or
\* thread.
C23_ConnectionPerThread ==
    /\ \A i \in 1..Len(connections) :
          /\ connections[i].used_by = {connections[i].created_by}
          /\ connections[i].closed_by \subseteq {connections[i].created_by}
    /\ \A t \in Threads : \A store \in {"memory_db", "context_manager"} :
          LET conn == SlotOf(threads[t], store)
          IN  /\ conn # NoConnection =>
                    /\ conn \in 1..Len(connections)
                    /\ connections[conn].created_by = t
                    /\ connections[conn].store = store
                    /\ Open(connections[conn])
              /\ Cardinality({i \in 1..Len(connections) :
                                /\ connections[i].created_by = t
                                /\ connections[i].store = store
                                /\ Open(connections[i])}) <= 1
    /\ last.op \in {"add_to_session_memory", "get_available_sessions",
                    "get_context_for_session", "close"} =>
          LET t == last.args.thread
              was == last.args.threads
          IN  /\ \A u \in Threads \ {t} : threads[u] = was[u]
              /\ \A i \in 1..Len(last.args.connections) :
                    connections[i].created_by # t => connections[i] = Before(i)
              /\ \A store \in {"memory_db", "context_manager"} :
                    (last.op # "close" /\ SlotOf(was[t], store) # NoConnection)
                        => SlotOf(threads[t], store) = SlotOf(was[t], store)
              /\ \A i \in (Len(last.args.connections) + 1)..Len(connections) :
                    /\ connections[i].created_by = t
                    /\ SlotOf(was[t], connections[i].store) = NoConnection
              /\ last.op = "close" =>
                    /\ Len(connections) = Len(last.args.connections)
                    /\ threads[t].db_connection = NoConnection
                    /\ threads[t].cm_connection = was[t].cm_connection
                    /\ \A i \in 1..Len(connections) :
                          IF i = was[t].db_connection
                          THEN ~Open(connections[i])
                          ELSE connections[i] = Before(i)

\* Both threads hold connections of their own, and one thread has closed
\* its connection while the other's stayed open.
C23_Witness ==
    /\ last.op = "close"
    /\ last.args.threads[last.args.thread].db_connection # NoConnection
    /\ \E u \in Threads \ {last.args.thread} :
          /\ threads[u].db_connection # NoConnection
          /\ threads[u].cm_connection # NoConnection
    /\ \E i \in 1..Len(connections) :
          /\ ~Open(connections[i])
          /\ \E j \in (i + 1)..Len(connections) :
                /\ connections[j].created_by = connections[i].created_by
                /\ connections[j].store = "memory_db"

(***************************************************************************)
(* Two threads in add_to_session_memory.  The method holds no lock, so a   *)
(* thread can be suspended between any two of its operations on            *)
(* self.session_memory: list.insert(0, entry); len(...) > limit; the       *)
(* evaluation of self.session_memory[:limit], which builds a new list; and *)
(* the store of that list into self.session_memory.  A thread's frame      *)
(* holds its position, its entry, the new list, and the ids of the calls   *)
(* that returned while it was in the method.  Below the capacity nothing   *)
(* is truncated, so calls are followed step by step only once the buffer   *)
(* is within one entry of session_memory_limit.                            *)
(***************************************************************************)
Crowded == Len(session_memory) >= session_memory_limit - 1

Idle(t) == threads[t].frame = <<>>

At(t, pc) == ~Idle(t) /\ threads[t].frame[1].pc = pc

InFlight == Cardinality({t \in Threads : ~Idle(t)})

Quiescent == \A t \in Threads : Idle(t)

Goto(t, pc) == [threads EXCEPT ![t].frame[1].pc = pc]

TurnFrame ==
    UNCHANGED <<memory_system, memory_enabled, memory_db, context_manager,
                embedding_manager, last, save_log, round_trip, connections>>

\* A whole call, made while no other thread is in the method.
AddAlone(t, e) ==
    /\ Quiescent
    /\ ~Crowded
    /\ Call("add_to_session_memory", [thread |-> t, entry |-> e, met |-> {}], Quiet,
            add_to_session_memory(World(Quiet), e.content, e.content_type, e.tags,
                                  e.importance, e.metadata))
    /\ UNCHANGED <<save_log, round_trip, threads, connections>>

\* entry = MemoryEntry(...); self.session_memory.insert(0, entry)
InsertFirst(t, e) ==
    LET entry == [content |-> e.content, timestamp |-> clock,
                  content_type |-> e.content_type, tags |-> e.tags,
                  importance |-> e.importance, metadata |-> e.metadata,
                  entry_id |-> NoEntryId]
    IN  /\ Idle(t)
        /\ Crowded
        /\ memory_enabled
        /\ memory_db.entry_seq + InFlight < MaxTurnAdds
        /\ session_memory' = <<entry>> \o session_memory
        /\ clock' = clock + 1
        /\ threads' = [threads EXCEPT ![t].frame =
                          <<[pc |-> "len", entry |-> entry, truncated |-> <<>>,
                             met |-> {}]>>]
        /\ TurnFrame

\* if len(self.session_memory) > self.session_memory_limit:
CompareLen(t) ==
    /\ At(t, "len")
    /\ threads' = Goto(t, IF Len(session_memory) > session_memory_limit
                          THEN "slice" ELSE "persist")
    /\ UNCHANGED <<session_memory, clock>>
    /\ TurnFrame

\* the right-hand side self.session_memory[:self.session_memory_limit]
SliceBuffer(t) ==
    /\ At(t, "slice")
    /\ threads' = [threads EXCEPT ![t].frame[1].pc = "store",
                                  ![t].frame[1].truncated =
                                      Take(session_memory, session_memory_limit)]
    /\ UNCHANGED <<session_memory, clock>>
    /\ TurnFrame

\* the assignment self.session_memory = <the new list>
StoreBuffer(t) ==
    /\ At(t, "store")
    /\ session_memory' = threads[t].frame[1].truncated
    /\ threads' = Goto(t, "persist")
    /\ UNCHANGED clock
    /\ TurnFrame

\* entry.entry_id = entry_id, on the entry object wherever it is held
mark_entry(buffer, entry, entry_id) ==
    [i \in 1..Len(buffer) |->
        IF buffer[i].timestamp = entry.timestamp
        THEN [buffer[i] EXCEPT !.entry_id = entry_id] ELSE buffer[i]]

\* memory_db.add_memory_entry, context_manager.add_content, the entry's id,
\* and the return.
Persist(t) ==
    LET entry == threads[t].frame[1].entry
        added == add_memory_entry(memory_db, session_id, entry.content,
                                  entry.content_type, entry.importance, entry.tags,
                                  entry.metadata, clock)
        indexed == add_content(context_manager, embedding_manager, session_id,
                               entry.content, entry.content_type, entry.importance,
                               entry.tags, entry.metadata, clock + 1,
                               Quiet.load_ok, Quiet.encode_ok, 0)
    IN  /\ At(t, "persist")
        /\ memory_db' = added.db
        /\ context_manager' = indexed.cm
        /\ embedding_manager' = indexed.em
        /\ clock' = indexed.clock
        /\ session_memory' = mark_entry(session_memory, entry, added.ret)
        /\ threads' = [u \in Threads |->
                          IF u = t THEN [threads[u] EXCEPT !.frame = <<>>]
                          ELSE IF Idle(u) THEN threads[u]
                          ELSE [threads[u] EXCEPT !.frame[1].met = @ \cup {added.ret}]]
        /\ last' = [NoCall EXCEPT !.op = "add_to_session_memory",
                                  !.args = [thread |-> t, entry |-> entry,
                                            met |-> threads[t].frame[1].met],
                                  !.ret = added.ret]
        /\ UNCHANGED <<memory_system, memory_enabled, save_log, round_trip,
                       connections>>

NextTurns ==
    \/ \E t \in Threads : AddAlone(t, EntryAb)
    \/ \E t \in Threads, e \in LifecycleEntries : InsertFirst(t, e)
    \/ \E t \in Threads : CompareLen(t)
    \/ \E t \in Threads : SliceBuffer(t)
    \/ \E t \in Threads : StoreBuffer(t)
    \/ \E t \in Threads : Persist(t)

SpecTurns == InitPlain /\ [][NextTurns]_vars

Holds(entry_id) ==
    \E i \in 1..Len(session_memory) : session_memory[i].entry_id = entry_id

\* C24: when two threads have been in add_to_session_memory at the same
\* time and both calls have returned, the buffer holds at most
\* session_memory_limit entries and holds the entries of both calls.
C24_BothInsertionsKept ==
    (Quiescent /\ last.op = "add_to_session_memory" /\ last.args.met # {}) =>
        /\ Len(session_memory) <= session_memory_limit
        /\ Holds(last.ret)
        /\ \A entry_id \in last.args.met : Holds(entry_id)

(***************************************************************************)
(* The loop of chunk_text, one iteration at a time.  last.args holds the   *)
(* arguments and the locals start and chunks; starts is the history of the *)
(* values start has had at the top of an iteration.                        *)
(***************************************************************************)
InitLoop ==
    /\ memory_system = "EnhancedMemorySystem"
    /\ memory_enabled = TRUE
    /\ session_memory = <<>>
    /\ memory_db = EmptyDb
    /\ context_manager = EmptyCm
    /\ embedding_manager = [embeddings_available |-> FALSE, model_loaded |-> FALSE]
    /\ clock = 1
    /\ \E x \in ChunkArgs :
          last = [NoCall EXCEPT !.op = "arguments", !.ret = <<>>,
                                !.args = [text |-> x.text, chunk_size |-> x.chunk_size,
                                          overlap |-> x.overlap, start |-> 0,
                                          chunks |-> <<>>, starts |-> <<>>]]
    /\ save_log = <<>>
    /\ round_trip = NoRoundTrip
    /\ threads = NoThreads
    /\ connections = <<>>

LoopFrame ==
    UNCHANGED <<memory_system, memory_enabled, session_memory, memory_db,
                context_manager, embedding_manager, clock, save_log, round_trip,
                threads, connections>>

\* if len(text) <= chunk_size: return [text]
ReturnWhole ==
    /\ last.op = "arguments"
    /\ Len(last.args.text) <= last.args.chunk_size
    /\ last' = [last EXCEPT !.op = "chunk_text", !.ret = <<last.args.text>>]
    /\ LoopFrame

\* chunks = []; start = 0
EnterLoop ==
    /\ last.op = "arguments"
    /\ ~(Len(last.args.text) <= last.args.chunk_size)
    /\ last' = [last EXCEPT !.op = "while", !.args.start = 0, !.args.chunks = <<>>]
    /\ LoopFrame

\* one evaluation of the while condition and, when it holds, of the body
Iterate ==
    LET a == last.args
        end == a.start + a.chunk_size
        chunks == Append(a.chunks, Slice(a.text, a.start, end))
    IN  /\ last.op = "while"
        /\ last' = IF ~(a.start < Len(a.text))
                   THEN [last EXCEPT !.op = "chunk_text", !.ret = a.chunks]
                   ELSE IF end >= Len(a.text)                      \* break
                   THEN [last EXCEPT !.op = "chunk_text", !.ret = chunks,
                                     !.args.chunks = chunks,
                                     !.args.starts = Append(@, a.start)]
                   ELSE [last EXCEPT !.args.chunks = chunks,
                                     !.args.starts = Append(@, a.start),
                                     !.args.start = next_start(end, a.overlap)]
        /\ LoopFrame

NextLoop == ReturnWhole \/ EnterLoop \/ Iterate

\* the thread that runs chunk_text keeps running
SpecLoop == InitLoop /\ [][NextLoop]_vars /\ WF_vars(NextLoop)

\* the last n characters of a chunk
Tail_n(chunk, n) == Drop(chunk, Len(chunk) - n)

\* What holds at every point of the loop: the window start has strictly
\* increased from one iteration to the next and is inside the text, every
\* window but the last ends before the end of the text, and each chunk
\* begins with the last overlap characters of the chunk before it and with
\* no more of it.
LoopShape ==
    LET a == last.args
        starts == a.starts
        chunks == a.chunks
    IN  last.op \in {"while", "chunk_text"} =>
          /\ Len(chunks) = Len(starts)
          /\ \A k \in 1..(Len(starts) - 1) :
                /\ starts[k] < starts[k + 1]
                /\ starts[k] + a.chunk_size < Len(a.text)
                /\ starts[k + 1] = starts[k] + a.chunk_size - a.overlap
                /\ Len(chunks[k + 1]) > a.overlap
                /\ Take(chunks[k + 1], a.overlap) = Tail_n(chunks[k], a.overlap)
          /\ last.op = "while" =>
                /\ a.start < Len(a.text)
                /\ starts # <<>> => a.start > starts[Len(starts)]
          /\ (last.op = "chunk_text" /\ starts # <<>>) =>
                /\ starts[Len(starts)] + a.chunk_size >= Len(a.text)
                /\ last.ret = chunk_text(a.text, a.chunk_size, a.overlap)

\* C25: for chunk_size >= 1 and 0 <= overlap < chunk_size chunk_text
\* returns for every text: the window start strictly increases with each
\* iteration, the loop ends with the window that reaches the end of the
\* text, and consecutive chunks share exactly overlap characters.
C25_ChunkingTerminates == []LoopShape /\ <>(last.op = "chunk_text")

\* The loop has returned after at least three iterations with overlapping
\* windows, the last of them shorter than chunk_size.
C25_Witness ==
    /\ last.op = "chunk_text"
    /\ last.args.overlap > 0
    /\ Len(last.args.starts) >= 3
    /\ Len(last.ret[Len(last.ret)]) < last.args.chunk_size

(***************************************************************************)
(* Sub-chunks of large entries.  The contents are texts whose characters   *)
(* change with a period that does not divide the sub-chunk size, of the    *)
(* lengths around the threshold and around a whole number of sub-chunks.   *)
(***************************************************************************)
Patterned(n) ==
    [i \in 1..n |-> IF i % 3 = 1 THEN "a" ELSE IF i % 3 = 2 THEN "b" ELSE "c"]

SubLengths == {1, SubChunkThreshold, SubChunkThreshold + 1, 3 * SubChunkSize,
               3 * SubChunkSize + 1}

SubEntries == {[EntryA EXCEPT !.content = Patterned(n)] : n \in SubLengths}

NextSub ==
    \E sid \in DbSessions, e \in SubEntries :
        RoomFor(1, MaxSubEntries) /\ AddMemoryEntry(sid, e)

SpecSub == Init /\ [][NextSub]_vars

SubChunks(entry_id) == {c \in memory_db.memory_chunks : c.entry_id = entry_id}

\* the sub-chunk contents of an entry, joined in chunk_index order from k on
RECURSIVE JoinedFrom(_, _)
JoinedFrom(chunks, k) ==
    LET at == {c \in chunks : c.chunk_index = k}
    IN  IF at = {} THEN <<>>
        ELSE (CHOOSE c \in at : TRUE).content \o JoinedFrom(chunks, k + 1)

\* C26: an entry has sub-chunks exactly when its content is longer than
\* 1000 characters; its sub-chunks carry the indices 0..n-1 once each, the
\* k-th is the 500 characters of the content from position 500 * k on (the
\* last one what is left of it), and joined in index order they are the
\* content.
C26_SubChunksRebuildContent ==
    \A r \in memory_db.memory_entries :
        LET chunks == SubChunks(r.id)
            n == Cardinality(chunks)
        IN  /\ (chunks # {}) <=> (Len(r.content) > SubChunkThreshold)
            /\ {c.chunk_index : c \in chunks} = 0..(n - 1)
            /\ \A c \in chunks :
                  /\ c.content # <<>>
                  /\ c.content = Slice(r.content, SubChunkSize * c.chunk_index,
                                       SubChunkSize * c.chunk_index + SubChunkSize)
                  /\ c.chunk_index < n - 1 => Len(c.content) = SubChunkSize
            /\ chunks # {} => JoinedFrom(chunks, 0) = r.content

\* The store holds an entry of exactly 1000 characters without sub-chunks
\* and an entry of 1501 characters with four, the last of one character.
C26_Witness ==
    /\ \E r \in memory_db.memory_entries :
          Len(r.content) = SubChunkThreshold /\ SubChunks(r.id) = {}
    /\ \E r \in memory_db.memory_entries :
          /\ Len(r.content) = 3 * SubChunkSize + 1
          /\ Cardinality(SubChunks(r.id)) = 4
          /\ \E c \in SubChunks(r.id) : c.chunk_index = 3 /\ Len(c.content) = 1

(***************************************************************************)
(* _simple_similarity on vectors of up to MaxVectorLen components, in the  *)
(* three ranges of magnitude, and on lists whose components are not        *)
(* numbers.                                                                *)
(***************************************************************************)
Digits == {-1, 0, 1}
DigitLists == UNION {[1..n -> Digits] : n \in 0..MaxVectorLen}
FloatVectors ==
    {[scale |-> s, digits |-> d, numbers |-> TRUE] : s \in {-1, 0, 1}, d \in DigitLists}
        \cup {[scale |-> 0, digits |-> d, numbers |-> FALSE] : d \in DigitLists \ {<<>>}}

InitCos ==
    /\ memory_system = "EnhancedMemorySystem"
    /\ memory_enabled = TRUE
    /\ session_memory = <<>>
    /\ memory_db = EmptyDb
    /\ context_manager = EmptyCm
    /\ embedding_manager = [embeddings_available |-> FALSE, model_loaded |-> FALSE]
    /\ clock = 1
    /\ \E text1, text2 \in FloatVectors :
          last = [NoCall EXCEPT !.op = "arguments",
                                !.args = [text1 |-> text1, text2 |-> text2]]
    /\ save_log = <<>>
    /\ round_trip = NoRoundTrip
    /\ threads = NoThreads
    /\ connections = <<>>

SimpleSimilarity ==
    LET r == simple_similarity_floats(last.args.text1, last.args.text2)
    IN  /\ last.op = "arguments"
        /\ last' = [last EXCEPT !.op = "_simple_similarity", !.ret = r.ret,
                                 !.raised = r.raised]
        /\ UNCHANGED <<memory_system, memory_enabled, session_memory, memory_db,
                       context_manager, embedding_manager, clock, save_log, round_trip,
                       threads, connections>>

NextCos == SimpleSimilarity

SpecCos == InitCos /\ [][NextCos]_vars

IsOne(sim) == sim.num > 0 /\ sim.num * sim.num = sim.den2
IsZero(sim) == sim.num = 0 /\ sim.den2 # 0

NonZero(text) == \E i \in 1..Len(text.digits) : text.digits[i] # 0
Orthogonal(text1, text2) ==
    /\ Len(text1.digits) = Len(text2.digits)
    /\ Dot(text1.digits, text2.digits) = 0
\* the float sum of the squares is neither 0.0 nor an infinity
InRange(text) == magnitude(text).class = "fin" /\ magnitude(text).n # 0

NextLoad ==
    \/ \E e \in LifecycleEntries :
          /\ clock < MaxLoadClock
          /\ RoomFor(1, MaxLoadEntries)
          /\ AddToSessionMemory(e, Quiet)
    \/ \E enabled \in BOOLEAN : SetMemoryEnabled(enabled)
    \/ \E name \in FaultNames :
          /\ clock < MaxLoadClock
          /\ RoomToSave(MaxLoadEntries)
          /\ SaveSessionMemory(name, Quiet)
    \/ \E name \in FaultNames :
          /\ clock < MaxLoadClock
          /\ RoomToLoad(name, MaxLoadEntries)
          /\ LoadSessionMemory(name, Quiet)

SpecLoad == InitPlain /\ [][NextLoad]_vars

\* The snapshot load_session_memory chooses for the name; the load leaves
\* the snapshot sessions as they are.
Chosen(session_name) == find_backup(memory_db, session_name)[1].session_id

\* C28: whenever load_session_memory(name) returns True, the persistent
\* entries of the current session are the contents of the chosen snapshot,
\* with the memory switch on or off.
C28_LoadRestoresSnapshot ==
    (last.op = "load_session_memory" /\ last.ret = TRUE) =>
        PersistentContents(memory_db, session_id)
            = PersistentContents(memory_db, Chosen(last.args))

(***************************************************************************)
(* Two sessions on one Context Manager.  The call records the table as it  *)
(* was, so that what it stored can be compared with what the same call     *)
(* stores when no other session holds anything.                            *)
(***************************************************************************)
ShareTexts == {<<"a">>, <<"b">>}

AddContentTo(sid, content) ==
    LET r == add_content(context_manager, embedding_manager, sid, content, "text",
                         10, NoTags, NoMeta, clock, Quiet.load_ok, Quiet.encode_ok, 0)
    IN  /\ context_manager' = r.cm
        /\ embedding_manager' = r.em
        /\ clock' = r.clock
        /\ last' = [op |-> "add_content",
                    args |-> [session_id |-> sid, content |-> content,
                              context_manager |-> context_manager, clock |-> clock],
                    db_fail |-> 0, cm_fail |-> 0, ret |-> r.ret,
                    raised |-> r.raised, db_raised |-> FALSE]
        /\ UNCHANGED <<memory_system, memory_enabled, session_memory, memory_db,
                       save_log, round_trip, threads, connections>>

NextShare ==
    \/ \E sid \in CmSessions, content \in ShareTexts :
          /\ clock < MaxShareClock
          /\ context_manager.chunk_seq < MaxShareChunks
          /\ AddContentTo(sid, content)
    \/ \E sid \in CmSessions : DeleteSessionContent(sid)
    \/ \E sid \in CmSessions : GetContextForSession(sid, DefaultSearchLimit, <<>>)

SpecShare == InitPlain /\ [][NextShare]_vars

\* the table without the rows of the other sessions
Own(cm, sid) ==
    [cm EXCEPT !.context_chunks = {r \in @ : r.session_id = sid}]

ChunksOf(cm, sid) == {r \in cm.context_chunks : r.session_id = sid}

\* C29: what add_content stores for a session, and what
\* get_context_for_session returns for it, are what they would be if no
\* other session held any content; a text added to a session is among the
\* session's chunks afterwards.
C29_SessionsIndependent ==
    /\ last.op = "add_content" =>
          LET sid == last.args.session_id
              alone == add_content(Own(last.args.context_manager, sid),
                                   embedding_manager, sid, last.args.content, "text",
                                   10, NoTags, NoMeta, last.args.clock,
                                   Quiet.load_ok, Quiet.encode_ok, 0)
          IN  /\ ChunksOf(context_manager, sid) = ChunksOf(alone.cm, sid)
              /\ last.ret = alone.ret
              /\ \E r \in ChunksOf(context_manager, sid) : r.content = last.args.content
    /\ last.op = "get_context_for_session" =>
          last.ret = get_context_for_session(Own(context_manager, last.args.session_id),
                                             last.args.session_id,
                                             last.args.max_chunks,
                                             last.args.content_types)

\* C30: a search_session_memory called with a content_type returns only
\* entries of that content_type, whichever source they came from.
C30_FilterAppliesToAllSources ==
    (last.op = "search_session_memory" /\ ~last.raised
        /\ last.args.content_type # NULL) =>
        \A i \in 1..Len(last.ret) : last.ret[i].content_type = last.args.content_type

(***************************************************************************)
(* Snapshots next to the session they were taken of: adds, the three       *)
(* clears, saves and loads on healthy stores.                              *)
(***************************************************************************)
NextSnap ==
    \/ \E e \in LifecycleEntries :
          /\ clock < MaxSnapClock
          /\ RoomFor(1, MaxSnapEntries)
          /\ AddToSessionMemory(e, Quiet)
    \/ ClearSessionMemory
    \/ ClearPersistentMemory(Quiet)
    \/ ClearAllMemory(Quiet)
    \/ \E name \in FaultNames :
          /\ clock < MaxSnapClock
          /\ Cardinality(memory_db.sessions) < MaxSnapSessions
          /\ RoomFor(Cardinality(EntriesOf(session_id)), MaxSnapEntries)
          /\ SaveSessionMemory(name, Quiet)
    \/ \E name \in FaultNames :
          /\ clock < MaxSnapClock
          /\ RoomToLoad(name, MaxSnapEntries)
          /\ LoadSessionMemory(name, Quiet)

SpecSnap == InitPlain /\ [][NextSnap]_vars

\* the rows of a session in a Storage Engine
RowsOf(db, sid) == {r \in db.memory_entries : r.session_id = sid}

\* C31: a save_session_memory leaves the current session's persistent
\* entries, the context chunks and the ephemeral buffer as they were, and no
\* call made after a snapshot was created (an add, a clear, a load, another
\* save) changes the entries of that snapshot.
C31_SnapshotsIsolated ==
    [][/\ (last'.op = "save_session_memory" /\ clock' # clock) =>
             /\ RowsOf(memory_db', session_id) = RowsOf(memory_db, session_id)
             /\ context_manager' = context_manager
             /\ session_memory' = session_memory
       /\ \A i \in 1..Len(save_log) :
             RowsOf(memory_db', save_log[i].session_id)
                = RowsOf(memory_db, save_log[i].session_id)]_vars

\* Two snapshots exist, the older one holds an entry, and the current
\* session has since been cleared.
C31_Witness ==
    /\ Len(save_log) = 2
    /\ RowsOf(memory_db, save_log[1].session_id) # {}
    /\ RowsOf(memory_db, session_id) = {}
    /\ last.op = "void"

(***************************************************************************)
(* Switching memory off and on between adds and the two read calls.  No    *)
(* clear is called here, so the buffer is empty beside a non-empty store   *)
(* only after memory was switched off.                                     *)
(***************************************************************************)
NextToggle ==
    \/ \E e \in LifecycleEntries :
          RoomFor(1, MaxToggleEntries) /\ AddToSessionMemory(e, Quiet)
    \/ \E enabled \in BOOLEAN : SetMemoryEnabled(enabled)
    \/ \E ct \in TypeFilters, n \in ResultLimits :
          SearchSessionMemory(<<"A">>, ct, n, Quiet)
    \/ \E n \in ContextLimits : GetContext(n, <<>>, Quiet)

SpecToggle == InitPlain /\ [][NextToggle]_vars

\* The step switches memory from on to off / from off to on.
Disabling == memory_enabled /\ ~memory_enabled'
Enabling == ~memory_enabled /\ memory_enabled'

\* the persistent entries of the current session a search asks for
Asked ==
    {r \in EntriesOf(session_id) :
        /\ Contains(Lower(r.content), Lower(last.args.query))
        /\ (last.args.content_type # NULL => r.content_type = last.args.content_type)}

\* the context chunks of the current session
CurrentChunks == {c \in context_manager.context_chunks : c.session_id = session_id}

\* What the read calls return depending on the switch.
ReadsFollowSwitch ==
    /\ (last.op = "search_session_memory" /\ ~memory_enabled) => last.ret = <<>>
    /\ (last.op = "get_context" /\ ~memory_enabled) => last.ret = <<>>
    /\ (/\ last.op = "search_session_memory"
        /\ memory_enabled
        /\ last.args.max_results >= Cardinality(EntriesOf(session_id))) =>
          \A r \in Asked : HasContent(last.ret, r.content)
    /\ (/\ last.op = "get_context"
        /\ memory_enabled
        /\ last.args.max_entries >= Cardinality(CurrentChunks)) =>
          \A c \in CurrentChunks : Contains(last.ret, c.content)

\* C32: set_memory_enabled(False) empties the ephemeral buffer and leaves the
\* Storage Engine and the Context Manager as they were; while memory is off
\* search_session_memory returns [] and get_context returns "" whatever is
\* stored; set_memory_enabled(True) changes no store, and once memory is on
\* again a search and get_context return the entries that were persisted
\* before it was switched off (all of them when the limit is not below their
\* number).
C32_DisableKeepsDurable ==
    /\ [][/\ Disabling => /\ session_memory' = <<>>
                          /\ memory_db' = memory_db
                          /\ context_manager' = context_manager
          /\ Enabling => /\ memory_db' = memory_db
                         /\ context_manager' = context_manager
                         /\ session_memory' = session_memory]_vars
    /\ []ReadsFollowSwitch

\* Memory is on again after it was off (the buffer is empty beside two
\* persisted entries) and a search has returned a persisted entry.
C32_Witness ==
    /\ memory_enabled
    /\ session_memory = <<>>
    /\ Cardinality(EntriesOf(session_id)) = 2
    /\ last.op = "search_session_memory"
    /\ Asked # {}
    /\ Len(last.ret) > 0

\* Memory is off beside persisted entries, and get_context has returned "".
C32_WitnessDisabled ==
    /\ ~memory_enabled
    /\ EntriesOf(session_id) # {}
    /\ last.op = "get_context"

(***************************************************************************)
(* Statistics of a session whose entries repeat a content with another     *)
(* importance.                                                             *)
(***************************************************************************)
EntryALow == [EntryA EXCEPT !.importance = 5]
StatsEntries == {EntryA, EntryALow}

NextStats ==
    \/ \E e \in StatsEntries :
          RoomFor(1, MaxStatsEntries) /\ AddToSessionMemory(e, Quiet)
    \/ ClearSessionMemory
    \/ \E enabled \in BOOLEAN : SetMemoryEnabled(enabled)
    \/ GetMemoryStats(Quiet)

SpecStats == InitPlain /\ [][NextStats]_vars

\* Two averages kept as fractions are the same number.
SameMean(x, y) == x.num * y.den = y.num * x.den

\* C33: what get_memory_stats returns describes the current session:
\* ephemeral_entries is the length of the ephemeral buffer, persistent_entries
\* the number of the session's rows in the Storage Engine, and
\* average_importance and last_updated are the mean importance and the latest
\* updated_at of those rows.
C33_StatsAreFaithful ==
    last.op = "get_memory_stats" =>
        LET rows == EntriesOf(session_id)
        IN  /\ last.ret.ephemeral_entries = Len(session_memory)
            /\ last.ret.persistent_entries = Cardinality(rows)
            /\ SameMean(last.ret.average_importance, average_importance(rows))
            /\ last.ret.last_updated = Latest(rows, UpdatedAt)

\* The two counts alone are those of the buffer and of the Storage Engine.
C33_CountsAreFaithful ==
    last.op = "get_memory_stats" =>
        /\ last.ret.ephemeral_entries = Len(session_memory)
        /\ last.ret.persistent_entries = Cardinality(EntriesOf(session_id))

\* The mean alone, and the latest update alone.
C33_MeanIsFaithful ==
    last.op = "get_memory_stats" =>
        SameMean(last.ret.average_importance, average_importance(EntriesOf(session_id)))

\* The part of C34 about a returned id: the first entry of the buffer carries
\* it and the Storage Engine holds the entry under it in the current session.
C34_ReturnedIdIsStored ==
    (last.op = "add_to_session_memory" /\ ~last.raised /\ last.ret >= 0) =>
        /\ session_memory # <<>>
        /\ session_memory[1].entry_id = last.ret
        /\ \E r \in EntriesOf(session_id) :
              /\ r.id = last.ret
              /\ r.content = last.args.content
              /\ r.content_type = last.args.content_type
              /\ r.importance = last.args.importance

\* C34: when add_to_session_memory returns an id e >= 0 the first entry of
\* the ephemeral buffer carries entry_id e and the Storage Engine holds an
\* entry with id e and the same content, content_type and importance in the
\* current session; and between façade calls every entry of the ephemeral
\* buffer has an entry_id.
C34_BufferEntriesHaveIds ==
    /\ C34_ReturnedIdIsStored
    /\ \A k \in 1..Len(session_memory) : session_memory[k].entry_id # NoEntryId

(***************************************************************************)
(* Entries with and without sub-chunks, added and deleted one at a time    *)
(* or a session at a time.                                                 *)
(***************************************************************************)
OrphanEntries ==
    {[EntryA EXCEPT !.content = Patterned(n)] : n \in {1, SubChunkThreshold + 1}}

NextOrphan ==
    \/ \E sid \in DbSessions, e \in OrphanEntries :
          RoomFor(1, MaxOrphanEntries) /\ AddMemoryEntry(sid, e)
    \/ \E entry_id \in 1..MaxOrphanEntries : DeleteMemoryEntry(entry_id)
    \/ \E sid \in DbSessions : DeleteSessionMemory(sid)

SpecOrphan == Init /\ [][NextOrphan]_vars

\* C35: every memory_chunks row references a memory_entries row that exists,
\* whatever was added and deleted.
C35_NoOrphanedSubChunks ==
    \A c \in memory_db.memory_chunks :
        \E r \in memory_db.memory_entries : r.id = c.entry_id

(***************************************************************************)
(* get_session_context on a Storage Engine that holds entries of two       *)
(* content types.                                                          *)
(***************************************************************************)
GetSessionContext(sid, max_entries, include_types) ==
    /\ DbCall("get_session_context",
              [session_id |-> sid, max_entries |-> max_entries,
               include_types |-> include_types],
              get_session_context(memory_db, sid, max_entries, include_types))
    /\ UNCHANGED <<memory_system, memory_enabled, session_memory, memory_db,
                   context_manager, embedding_manager, clock, save_log, round_trip,
                   threads, connections>>

PickLimits == {1, 2}

NextPick ==
    \/ \E sid \in DbSessions, e \in DbEntries :
          RoomFor(1, MaxPickEntries) /\ AddMemoryEntry(sid, e)
    \/ \E sid \in DbSessions, n \in PickLimits, ts \in TypeLists :
          GetSessionContext(sid, n, ts)

SpecPick == Init /\ [][NextPick]_vars

\* the entries of the session asked for whose type is included
IncludedEntries ==
    {r \in EntriesOf(last.args.session_id) :
        last.args.include_types # <<>> =>
            \E i \in 1..Len(last.args.include_types) :
                last.args.include_types[i] = r.content_type}

\* the number of lines of a text none of whose entries holds a line break
Lines(text) ==
    IF text = <<>> THEN 0
    ELSE 1 + Cardinality({i \in 1..Len(text) : text[i] = "\n"})

\* C36: get_session_context renders at least k entries whenever the session
\* holds at least k <= max_entries entries of an included type, however many
\* entries of other types rank above them.
C36_IncludedEntriesRendered ==
    last.op = "get_session_context" =>
        \A k \in 0..last.args.max_entries :
            Cardinality(IncludedEntries) >= k => Lines(last.ret) >= k

\* The same without a type filter.
C36_UnfilteredRendered ==
    (last.op = "get_session_context" /\ last.args.include_types = <<>>) =>
        \A k \in 0..last.args.max_entries :
            Cardinality(IncludedEntries) >= k => Lines(last.ret) >= k

(***************************************************************************)
(* Round trips of sessions that hold entries of equal importance.          *)
(***************************************************************************)
RankEntries == {EntryA, EntryB, EntryAb}

NextRank ==
    \/ \E e \in RankEntries :
          /\ clock < MaxRankClock
          /\ RoomFor(1, MaxRankEntries)
          /\ AddToSessionMemory(e, Quiet)
    \/ ClearAllMemory(Quiet)
    \/ \E name \in FaultNames :
          /\ clock < MaxRankClock
          /\ RoomToSave(MaxRankEntries)
          /\ SaveSessionMemory(name, Quiet)
    \/ \E name \in FaultNames :
          /\ clock < MaxRankClock
          /\ RoomToLoad(name, MaxRankEntries)
          /\ LoadSessionMemory(name, Quiet)

SpecRank == InitPlain /\ [][NextRank]_vars

\* C37: after save_session_memory(x), clear_all_memory() and
\* load_session_memory(x), called one after the other with memory enabled,
\* get_memory_entries returns for the current session the contents it
\* returned before the save, in the same order, while the entries carry
\* created_at values later than the save.
C37_RoundTripKeepsRanking ==
    round_trip.phase = 3 =>
        /\ RankedContents(memory_db, session_id) = round_trip.ranked
        /\ \A r \in EntriesOf(session_id) :
              \A s \in RowsOf(memory_db, save_log[Len(save_log)].session_id) :
                  r.created_at > s.created_at

\* A round trip of two entries of equal importance and different contents
\* has been completed.
C37_Witness ==
    /\ round_trip.phase = 3
    /\ last.op = "load_session_memory"
    /\ last.ret = TRUE
    /\ Len(round_trip.ranked) = 2
    /\ round_trip.ranked[1] # round_trip.ranked[2]
    /\ \A r \in EntriesOf(session_id) : r.importance = EntryA.importance

(***************************************************************************)
(* add_memory_entry called by two threads on one Storage Engine.  Each     *)
(* call is three statements, each in its own transaction on the thread's   *)
(* connection: the SELECT of session_exists, the INSERT of create_session  *)
(* when no row was seen, and the INSERT of the entry.  SQLite runs the      *)
(* transactions one at a time; the threads may switch between them.        *)
(***************************************************************************)
Free(t) ==
    IF threads[t].frame = <<>> THEN TRUE ELSE threads[t].frame[1].pc = "returned"

Busy(t, pc) ==
    IF threads[t].frame = <<>> THEN FALSE ELSE threads[t].frame[1].pc = pc

Running == Cardinality({t \in Threads : ~Free(t)})

RaceFrame ==
    UNCHANGED <<memory_system, memory_enabled, session_memory, context_manager,
                embedding_manager, save_log, round_trip, connections>>

\* if not self.session_exists(session_id):
CheckSession(t, sid, e) ==
    /\ Free(t)
    /\ memory_db.entry_seq + Running < MaxRaceEntries
    /\ threads' = [threads EXCEPT ![t].frame =
                      <<[pc |-> IF session_exists(memory_db, sid)
                                THEN "insert" ELSE "create",
                         session_id |-> sid, entry |-> e,
                         seen |-> session_exists(memory_db, sid),
                         created |-> "skipped", ret |-> NoEntryId, raised |-> FALSE]>>]
    /\ UNCHANGED <<memory_db, clock, last>>
    /\ RaceFrame

\* self.create_session(session_id, str(Path.cwd()), {}): the value it
\* returns is dropped.
CreateMissing(t) ==
    LET f == threads[t].frame[1]
        r == create_session(memory_db, f.session_id, <<"c", "w", "d">>, NoMeta, clock)
    IN  /\ Busy(t, "create")
        /\ memory_db' = r.db
        /\ clock' = clock + 1
        /\ threads' = [threads EXCEPT ![t].frame[1].pc = "insert",
                                      ![t].frame[1].created =
                                          IF r.ret THEN "inserted" ELSE "refused"]
        /\ UNCHANGED last
        /\ RaceFrame

\* INSERT INTO memory_entries, the sub-chunks, return entry_id.  The session
\* has a row by now, so add_memory_entry is past its first statement.
InsertEntry(t) ==
    LET f == threads[t].frame[1]
        r == add_memory_entry(memory_db, f.session_id, f.entry.content,
                              f.entry.content_type, f.entry.importance,
                              f.entry.tags, f.entry.metadata, clock)
    IN  /\ Busy(t, "insert")
        /\ memory_db' = r.db
        /\ clock' = clock + 1
        /\ threads' = [threads EXCEPT ![t].frame[1].pc = "returned",
                                      ![t].frame[1].ret = r.ret]
        /\ last' = [NoCall EXCEPT !.op = "add_memory_entry",
                                  !.args = [thread |-> t, session_id |-> f.session_id,
                                            entry |-> f.entry],
                                  !.ret = r.ret]
        /\ RaceFrame

NextRace ==
    \/ \E t \in Threads, sid \in DbSessions, e \in DbEntries : CheckSession(t, sid, e)
    \/ \E t \in Threads : CreateMissing(t)
    \/ \E t \in Threads : InsertEntry(t)

SpecRace == Init /\ [][NextRace]_vars

\* the calls that have returned
Finished == {t \in Threads : Busy(t, "returned")}

\* C38: however the statements of two concurrent add_memory_entry calls for
\* a session without a row interleave, neither call raises, each returns the
\* id of an entry that is stored for its session with its content, the ids
\* differ, and the session has exactly one sessions row.
C38_RacingAddsBothStored ==
    /\ \A t \in Finished :
          LET f == threads[t].frame[1]
          IN  /\ ~f.raised
              /\ \E r \in EntriesOf(f.session_id) :
                    r.id = f.ret /\ r.content = f.entry.content
              /\ Cardinality({s \in memory_db.sessions :
                                 s.session_id = f.session_id}) = 1
    /\ \A t, u \in Finished :
          t # u => threads[t].frame[1].ret # threads[u].frame[1].ret
    /\ \A r, s \in memory_db.sessions : r.session_id = s.session_id => r = s

\* Both calls have returned after both found no row for the same session,
\* so that one of the two create_session calls was refused.
C38_Witness ==
    /\ Finished = Threads
    /\ threads["T1"].frame[1].session_id = threads["T2"].frame[1].session_id
    /\ \A t \in Threads : ~threads[t].frame[1].seen
    /\ \E t \in Threads : threads[t].frame[1].created = "refused"

(***************************************************************************)
(* add_content called by two threads on one Context Manager.  A call       *)
(* chunks its text and then runs one transaction per chunk (embed, INSERT,  *)
(* IntegrityError swallowed); the threads may switch between transactions. *)
(* Each thread makes one call.                                             *)
(***************************************************************************)
DupTexts == {<<"a">>, LongText}

DupFrame ==
    UNCHANGED <<memory_system, memory_enabled, session_memory, memory_db,
                save_log, round_trip, connections>>

\* chunks = self.chunk_text(content); chunk_ids = []
StartAddContent(t, content) ==
    /\ threads[t].frame = <<>>
    /\ threads' = [threads EXCEPT
                      ![t].frame = <<[pc |-> "chunk", content |-> content,
                                      chunks |-> chunk_text(content, DefaultChunkSize,
                                                            DefaultOverlap),
                                      k |-> 1, ret |-> <<>>, raised |-> FALSE]>>]
    /\ UNCHANGED <<context_manager, embedding_manager, clock, last>>
    /\ DupFrame

\* one turn of "for chunk_text in chunks": add_content from chunk k to chunk k
StoreChunk(t) ==
    LET f == threads[t].frame[1]
        st == add_chunks([cm |-> context_manager, em |-> embedding_manager,
                          ret |-> f.ret, clock |-> clock, raised |-> FALSE],
                         <<f.chunks[f.k]>>, 1, session_id, "text", 10, NoTags,
                         NoMeta, Quiet.load_ok, Quiet.encode_ok, 0)
    IN  /\ Busy(t, "chunk")
        /\ f.k <= Len(f.chunks)
        /\ context_manager' = st.cm
        /\ embedding_manager' = st.em
        /\ clock' = st.clock
        /\ threads' = [threads EXCEPT ![t].frame[1].k = @ + 1,
                                      ![t].frame[1].ret = st.ret,
                                      ![t].frame[1].raised = st.raised]
        /\ UNCHANGED last
        /\ DupFrame

\* return chunk_ids
ReturnChunkIds(t) ==
    LET f == threads[t].frame[1]
    IN  /\ Busy(t, "chunk")
        /\ f.k > Len(f.chunks)
        /\ threads' = [threads EXCEPT ![t].frame[1].pc = "returned"]
        /\ last' = [NoCall EXCEPT !.op = "add_content",
                                  !.args = [thread |-> t, content |-> f.content],
                                  !.ret = f.ret]
        /\ UNCHANGED <<context_manager, embedding_manager, clock>>
        /\ DupFrame

NextDup ==
    \/ \E t \in Threads, content \in DupTexts : StartAddContent(t, content)
    \/ \E t \in Threads : StoreChunk(t)
    \/ \E t \in Threads : ReturnChunkIds(t)

SpecDup == InitPlain /\ [][NextDup]_vars

\* the ids a thread's call has collected
IdsOf(t) ==
    IF threads[t].frame = <<>> THEN {}
    ELSE {threads[t].frame[1].ret[i] : i \in 1..Len(threads[t].frame[1].ret)}

\* the distinct chunks of the text of a thread's call
DistinctChunks(t) ==
    {threads[t].frame[1].chunks[i] : i \in 1..Len(threads[t].frame[1].chunks)}

\* C39: however the chunk transactions of two concurrent add_content calls
\* interleave, no chunk text is stored twice, no chunk id is returned to both
\* callers, no call raises, and when the calls have returned every distinct
\* chunk of their texts is stored once and every stored chunk's id has been
\* returned to one caller.
C39_RacingChunksStoredOnce ==
    /\ \A r, s \in context_manager.context_chunks :
          r.embedding_hash = s.embedding_hash => r = s
    /\ IdsOf("T1") \cap IdsOf("T2") = {}
    /\ \A t \in Threads :
          IF threads[t].frame = <<>> THEN TRUE ELSE ~threads[t].frame[1].raised
    /\ \A t \in Finished :
          \A c \in DistinctChunks(t) :
              Cardinality({r \in context_manager.context_chunks : r.content = c}) = 1
    /\ Finished = Threads =>
          {r.id : r \in context_manager.context_chunks} = IdsOf("T1") \cup IdsOf("T2")

\* Both calls were made with the same text of several chunks and have
\* returned, and each of them stored a part of it.
C39_Witness ==
    /\ Finished = Threads
    /\ threads["T1"].frame[1].content = threads["T2"].frame[1].content
    /\ Len(threads["T1"].frame[1].chunks) > 1
    /\ IdsOf("T1") # {}
    /\ IdsOf("T2") # {}

(***************************************************************************)
(* embed_text called by two threads on one EmbeddingManager whose          *)
(* libraries are installed.  The steps are those of embed_text and of the  *)
(* model property: the test of _embeddings_available, the check outside    *)
(* the lock, the acquisition of the lock, the check inside it, the         *)
(* construction, the release, and the use of the model.  The lock is held  *)
(* by the thread that is inside the with block.  Each frame counts the     *)
(* calls its thread has made and the constructions it has attempted.       *)
(***************************************************************************)
\* A variant: the with block without its second check.
second_check_skipped(em) == TRUE

\* "if self._model is None and self._embeddings_available" inside the lock
second_check(em) == ~em.model_loaded /\ em.embeddings_available

\* the same test before the lock is taken
first_check(em) == ~em.model_loaded /\ em.embeddings_available

\* self._model = SentenceTransformer(...), or the except branch
construct(em, load_ok) ==
    IF load_ok THEN [em EXCEPT !.model_loaded = TRUE]
    ELSE [em EXCEPT !.embeddings_available = FALSE, !.model_loaded = FALSE]

InLock(t) ==
    IF threads[t].frame = <<>> THEN FALSE
    ELSE threads[t].frame[1].pc \in {"inner", "construct", "release"}

LockFree == \A t \in Threads : ~InLock(t)

CallsOf(t) == IF threads[t].frame = <<>> THEN 0 ELSE threads[t].frame[1].calls

ConstructedBy(t) ==
    IF threads[t].frame = <<>> THEN 0 ELSE threads[t].frame[1].constructed

LazyFrame ==
    UNCHANGED <<memory_system, memory_enabled, session_memory, memory_db,
                context_manager, clock, save_log, round_trip, connections>>

\* embed_text: if self._embeddings_available and ...
EnterEmbedText(t, text) ==
    /\ Free(t)
    /\ CallsOf(t) < MaxLazyCalls
    /\ threads' = [threads EXCEPT ![t].frame =
                      <<[pc |-> IF embedding_manager.embeddings_available
                                THEN "outer" ELSE "none",
                         text |-> text, calls |-> CallsOf(t) + 1,
                         constructed |-> ConstructedBy(t), waited |-> FALSE]>>]
    /\ UNCHANGED <<embedding_manager, last>>
    /\ LazyFrame

\* model: the check before the lock
OuterCheck(t) ==
    /\ Busy(t, "outer")
    /\ threads' = [threads EXCEPT
                      ![t].frame[1].pc = IF first_check(embedding_manager)
                                         THEN "acquire" ELSE "use",
                      ![t].frame[1].waited = first_check(embedding_manager)]
    /\ UNCHANGED <<embedding_manager, last>>
    /\ LazyFrame

\* with self._lock:
AcquireLock(t) ==
    /\ Busy(t, "acquire")
    /\ LockFree
    /\ threads' = [threads EXCEPT ![t].frame[1].pc = "inner"]
    /\ UNCHANGED <<embedding_manager, last>>
    /\ LazyFrame

\* the check inside the lock
InnerCheck(t) ==
    /\ Busy(t, "inner")
    /\ threads' = [threads EXCEPT
                      ![t].frame[1].pc = IF second_check(embedding_manager)
                                         THEN "construct" ELSE "release"]
    /\ UNCHANGED <<embedding_manager, last>>
    /\ LazyFrame

\* the try block: the model is constructed or the provider is disabled
ConstructModel(t, load_ok) ==
    /\ Busy(t, "construct")
    /\ embedding_manager' = construct(embedding_manager, load_ok)
    /\ threads' = [threads EXCEPT ![t].frame[1].pc = "release",
                                  ![t].frame[1].constructed = @ + 1]
    /\ UNCHANGED last
    /\ LazyFrame

\* the end of the with block; return self._model
ReleaseLock(t) ==
    /\ Busy(t, "release")
    /\ threads' = [threads EXCEPT ![t].frame[1].pc = "use"]
    /\ UNCHANGED <<embedding_manager, last>>
    /\ LazyFrame

\* "... and self.model is not None": encode with the model, or return None
UseModel(t, encode_ok) ==
    LET f == threads[t].frame[1]
    IN  /\ Busy(t, "use")
        /\ threads' = [threads EXCEPT ![t].frame[1].pc = "returned"]
        /\ last' = [NoCall EXCEPT !.op = "embed_text",
                                  !.args = [thread |-> t, text |-> f.text],
                                  !.ret = IF embedding_manager.model_loaded /\ encode_ok
                                          THEN encode(f.text) ELSE <<>>]
        /\ UNCHANGED embedding_manager
        /\ LazyFrame

\* the fallback "return None" when _embeddings_available is false
ReturnNone(t) ==
    LET f == threads[t].frame[1]
    IN  /\ Busy(t, "none")
        /\ threads' = [threads EXCEPT ![t].frame[1].pc = "returned"]
        /\ last' = [NoCall EXCEPT !.op = "embed_text",
                                  !.args = [thread |-> t, text |-> f.text],
                                  !.ret = <<>>]
        /\ UNCHANGED embedding_manager
        /\ LazyFrame

NextLazy ==
    \/ \E t \in Threads, text \in EmbedTexts : EnterEmbedText(t, text)
    \/ \E t \in Threads : OuterCheck(t)
    \/ \E t \in Threads : AcquireLock(t)
    \/ \E t \in Threads : InnerCheck(t)
    \/ \E t \in Threads, load_ok \in BOOLEAN : ConstructModel(t, load_ok)
    \/ \E t \in Threads : ReleaseLock(t)
    \/ \E t \in Threads, encode_ok \in BOOLEAN : UseModel(t, encode_ok)
    \/ \E t \in Threads : ReturnNone(t)

SpecLazy == InitInstalled /\ [][NextLazy]_vars

Constructions == ConstructedBy("T1") + ConstructedBy("T2")

\* C40: however the steps of concurrent embed_text calls interleave, the
\* embedding model is constructed at most once, whether the construction
\* succeeds or fails; at most one thread is inside the lock; and a loaded
\* model or a disabled provider is the outcome of that one construction.
C40_ModelLoadedAtMostOnce ==
    /\ Constructions <= 1
    /\ Cardinality({t \in Threads : InLock(t)}) <= 1
    /\ embedding_manager.model_loaded => Constructions = 1
    /\ ~embedding_manager.embeddings_available =>
          Constructions = 1 /\ ~embedding_manager.model_loaded

\* Both threads passed the check outside the lock before the model was
\* loaded, both calls have returned, and the model was constructed once.
C40_Witness ==
    /\ Finished = Threads
    /\ \A t \in Threads : threads[t].frame[1].waited /\ threads[t].frame[1].calls = 1
    /\ Constructions = 1
    /\ embedding_manager.model_loaded

\* The same after a failed load: both threads were past the check outside
\* the lock, the one construction failed, and no second one was made.
C40_WitnessFailed ==
    /\ Finished = Threads
    /\ \A t \in Threads : threads[t].frame[1].waited
    /\ Constructions = 1
    /\ ~embedding_manager.embeddings_available

====
